---- MODULE Spec2Model ----
(***************************************************************************)
(* Model of the claude-copilot HTTP bridge (src/src/server.ts and          *)
(* src/src/extension.ts): the system-prompt normalizer, the tool catalog   *)
(* and registrar, tool discovery, and the streaming retry orchestrator.    *)
(*                                                                         *)
(* Text is a sequence of atoms: an atom is one character or one fixed      *)
(* literal of the source ("<SYSTEM_INSTRUCTIONS>", ...).  Concatenation is  *)
(* \o, String.prototype.trim removes leading and trailing whitespace atoms.*)
(***************************************************************************)
EXTENDS Integers, Sequences, FiniteSets, TLC

VARIABLES
    \* ---- prompt normalizer (processSystemPrompts) ----
    messages,        \* body.messages of the request being normalized
    config,          \* the Config read for the request
    processed,       \* ProcessedMessages returned, or NotYet
    npc,             \* "input" before the call, "done" after it
    \* ---- tool catalog and registrar (claudeTools.ts, extension.ts) ----
    claudeToolSignatures,  \* the catalog: a sequence of signatures
    dummyRegistry,         \* the registration set
    extensionContext,      \* TRUE once activate() has stored the context
    mcpTools,              \* mcpManager.getAvailableTools(): provider tool names
    registerOk,            \* per name: calls of vscode.lm.registerTool that
                           \* returned a disposable
    failures,              \* calls of vscode.lm.registerTool that threw
    lastOp,                \* the registrar call that ran last, and its outcome
    \* ---- tool discovery (discoverToolDefinition) ----
    discName,              \* the name to discover
    execOutput,            \* per probe command, whether exec gives output
    discovered,            \* what discoverToolDefinition returned, or NullSignature
    dpc,                   \* "input" before the call, "done" after it
    \* ---- one streamed turn (the routes, createRetryableStreamProcessor) ----
    route,                 \* "chat" (/chat/completions) or "messages" (/v1/messages)
    tpc,                   \* "idle", "streaming", "completed" or "failed"
    retryContexts,         \* keys of the global retryContexts map
    retryCount,            \* context.retryCount
    stack,                 \* the executeStreamWithRetry activations, outermost first
    attempts,              \* per sendRequest that returned: the chunks its stream gave
    sendRequests,          \* calls of model.sendRequest so far
    request,               \* chatRequest, requestOptions and model of the turn
    sent,                  \* what each call of model.sendRequest was given
    sink,                  \* the frames written to the caller's stream
    thrown,                \* the error message a failed turn ended with
    delivered,             \* the tool result onToolResult was awaited with last:
                           \* its text, retryCount at that moment, what became of it
    \* ---- one HTTP exchange (the route handlers) ----
    response,              \* the request handled last and the response it got
    \* ---- the catalog as others see it (GET /tools, concurrent turns) ----
    listing,               \* the tools array GET /tools answered with last
    pending,               \* per turn: the discovery it awaits or has got, if any
    \* ---- the handler registerMCPTool installs ----
    toolResult,            \* what invoke() gave the execution environment last
    \* ---- concurrent streamed turns (the global retryContexts map) ----
    contextStore,          \* retryContexts: context id -> the RetryContext stored
    flights,               \* per turn: its activations, context id and dispatches
    \* ---- the running server (newServer, updateConfig) ----
    deliveredConfig,       \* the Config given to updateConfig last, or NoConfig
    \* ---- the MCP manager (mcp-client.ts) ----
    mcpManagerTools        \* MCPManager.tools: the <<client, tool>> keys, in the
                           \* order of insertion

normVars == <<messages, config, processed, npc>>
regVars == <<claudeToolSignatures, dummyRegistry, extensionContext, mcpTools,
             registerOk, failures, lastOp>>
discVars == <<discName, execOutput, discovered, dpc>>

turnVars == <<route, tpc, retryContexts, retryCount, stack, attempts, sendRequests,
              request, sent, sink, thrown, delivered>>

catVars == <<listing, pending>>

srvVars == <<contextStore, flights, deliveredConfig, mcpManagerTools>>

httpVars == <<response, catVars, toolResult, srvVars>>

vars == <<normVars, regVars, discVars, turnVars, httpVars>>

----------------------------------------------------------------------------
(* Bounds *)

\* longest request message list that is enumerated
MaxMsgs == 2

\* how many calls of vscode.lm.registerTool may throw in one behaviour
MaxFailures == 1

\* most tool names one request declares
MaxTools == 1

\* stream parts (text or tool call) the model gives in one turn, over all
\* the attempts of the turn
MaxChunks == 4

\* default of createRetryableStreamProcessor's maxRetries parameter
MaxRetries == 2

----------------------------------------------------------------------------
(* Text helpers *)

WhiteSpace == {" ", "\n"}

RECURSIVE TrimStart(_)
TrimStart(s) ==
    IF s = <<>> THEN s
    ELSE IF Head(s) \in WhiteSpace THEN TrimStart(Tail(s)) ELSE s

RECURSIVE TrimEnd(_)
TrimEnd(s) ==
    IF s = <<>> THEN s
    ELSE IF s[Len(s)] \in WhiteSpace THEN TrimEnd(SubSeq(s, 1, Len(s) - 1)) ELSE s

\* String.prototype.trim
Trim(s) == TrimEnd(TrimStart(s))

\* Array.prototype.join
RECURSIVE Join(_, _)
Join(strs, sep) ==
    IF strs = <<>> THEN <<>>
    ELSE IF Len(strs) = 1 THEN strs[1]
    ELSE strs[1] \o sep \o Join(Tail(strs), sep)

\* String.prototype.includes for a one-atom needle
Includes(s, atom) == \E i \in 1..Len(s) : s[i] = atom

\* needle occurs in s as a contiguous substring
IsSubstring(needle, s) ==
    \E i \in 0..(Len(s) - Len(needle)) : SubSeq(s, i + 1, i + Len(needle)) = needle

NL2 == <<"\n", "\n">>

----------------------------------------------------------------------------
(* Messages *)

Roles == {"system", "user", "assistant", "tool"}

SystemPromptFormats == {"merge", "assistant_acknowledgment", "simple_prepend"}

\* content is a string, or an array holding one text part
StringContent(text) == [type |-> "string", value |-> text]
PartsContent(text) == [type |-> "parts", value |-> text]

\* JSON.stringify of [{type: 'text', text: <text>}]
JSONStringify(content) == <<"[{\"type\":\"text\",\"text\":\"">> \o content.value \o <<"\"}]">>

\* typeof c === 'string' ? c : JSON.stringify(c)
ContentText(content) ==
    IF content.type = "string" THEN content.value ELSE JSONStringify(content)

Message(role, content) == [role |-> role, content |-> content]

\* SystemToUser with the role test lost: the message is returned as it came
SystemToUser_Kept(message) == message

\* message => role === 'system' ? { ...message, role: 'user' } : message
SystemToUser(message) ==
    IF message.role = "system" THEN [message EXCEPT !.role = "user"] ELSE message

MapSystemToUser(msgs) == [i \in 1..Len(msgs) |-> SystemToUser(msgs[i])]

IsSystem(message) == message.role = "system"
IsNotSystem(message) == message.role # "system"

----------------------------------------------------------------------------
(* formatSystemPrompt, applySystemPromptFormat, processSystemPrompts *)

\* formatSystemPrompt with the blank-user-content test of the merge case lost
formatSystemPrompt_AlwaysWrap(systemContent, userContent, format) ==
    CASE format = "merge" ->
            <<"<SYSTEM_INSTRUCTIONS>", "\n">> \o systemContent
                \o <<"\n", "</SYSTEM_INSTRUCTIONS>">> \o NL2
                \o <<"<USER_MESSAGE>", "\n">> \o userContent
                \o <<"\n", "</USER_MESSAGE>">>
      [] format = "assistant_acknowledgment" ->
            <<"<INSTRUCTIONS>", "\n">> \o systemContent \o <<"\n", "</INSTRUCTIONS>">>
      [] OTHER -> systemContent

formatSystemPrompt(systemContent, userContent, format) ==
    CASE format = "merge" ->
            IF Trim(userContent) = <<>>
            THEN <<"<SYSTEM_INSTRUCTIONS>", "\n">> \o systemContent
                     \o <<"\n", "</SYSTEM_INSTRUCTIONS>">>
            ELSE <<"<SYSTEM_INSTRUCTIONS>", "\n">> \o systemContent
                     \o <<"\n", "</SYSTEM_INSTRUCTIONS>">> \o NL2
                     \o <<"<USER_MESSAGE>", "\n">> \o userContent
                     \o <<"\n", "</USER_MESSAGE>">>
      [] format = "assistant_acknowledgment" ->
            <<"<INSTRUCTIONS>", "\n">> \o systemContent \o <<"\n", "</INSTRUCTIONS>">>
      [] format = "simple_prepend" -> systemContent
      [] OTHER -> systemContent

AckText == <<"I understand and will follow these instructions carefully.">>
ProceedText == <<"Please proceed with following these instructions.">>

\* applySystemPromptFormat whose acknowledgment case forgets the assistant message
applySystemPromptFormat_NoAck(msgs, systemContent, format) ==
    IF Len(msgs) = 0
    THEN <<Message("user", StringContent(formatSystemPrompt(systemContent, <<>>, format)))>>
    ELSE <<Message("user", StringContent(
              formatSystemPrompt(systemContent, <<>>, format) \o NL2 \o ProceedText))>>
         \o MapSystemToUser(msgs)

\* applySystemPromptFormat that gives the first message the user role in every
\* format
applySystemPromptFormat_FirstIsUser(msgs, systemContent, format) ==
    IF Len(msgs) = 0
    THEN <<Message("user", StringContent(formatSystemPrompt(systemContent, <<>>, format)))>>
    ELSE LET firstMessage == msgs[1]
             restMessages == Tail(msgs)
         IN CASE format = "merge" ->
                    <<Message("user", StringContent(formatSystemPrompt(
                          systemContent, ContentText(firstMessage.content), "merge")))>>
                    \o restMessages
              [] format = "assistant_acknowledgment" ->
                    <<Message("assistant", StringContent(AckText)),
                      Message("user", StringContent(
                          formatSystemPrompt(systemContent, <<>>, "assistant_acknowledgment")
                              \o NL2 \o ProceedText))>>
                    \o MapSystemToUser(msgs)
              [] format = "simple_prepend" ->
                    <<Message("user", StringContent(
                          systemContent \o NL2 \o ContentText(firstMessage.content)))>>
                    \o restMessages
              [] OTHER -> msgs

applySystemPromptFormat(msgs, systemContent, format) ==
    IF Len(msgs) = 0
    THEN <<Message("user", StringContent(formatSystemPrompt(systemContent, <<>>, format)))>>
    ELSE LET firstMessage == msgs[1]
             restMessages == Tail(msgs)
         IN CASE format = "merge" ->
                    <<[firstMessage EXCEPT
                         !.role = IF firstMessage.role = "system" THEN "user"
                                  ELSE firstMessage.role,
                         !.content = StringContent(formatSystemPrompt(
                             systemContent, ContentText(firstMessage.content), "merge"))]>>
                    \o restMessages
              [] format = "assistant_acknowledgment" ->
                    <<Message("assistant", StringContent(AckText)),
                      Message("user", StringContent(
                          formatSystemPrompt(systemContent, <<>>, "assistant_acknowledgment")
                              \o NL2 \o ProceedText))>>
                    \o MapSystemToUser(msgs)
              [] format = "simple_prepend" ->
                    <<[firstMessage EXCEPT
                         !.role = IF firstMessage.role = "system" THEN "user"
                                  ELSE firstMessage.role,
                         !.content = StringContent(
                             systemContent \o NL2 \o ContentText(firstMessage.content))]>>
                    \o restMessages
              [] OTHER -> msgs

\* allSystemContent as built at server.ts:185-196
AllSystemContent(msgs, cfg) ==
    LET systemMessages == SelectSeq(msgs, IsSystem)
        default == IF Trim(cfg.systemPrompt) # <<>>
                   THEN Trim(cfg.systemPrompt) \o NL2 ELSE <<>>
        fromMessages ==
            IF Len(systemMessages) > 0
            THEN Join([i \in 1..Len(systemMessages) |->
                          ContentText(systemMessages[i].content)], NL2)
            ELSE <<>>
    IN default \o fromMessages

\* processSystemPrompts without the early return for blank system content
processSystemPrompts_NoBlankReturn(msgs, cfg) ==
    IF ~cfg.enableSystemPromptProcessing
    THEN [messages |-> MapSystemToUser(msgs), hasSystemPrompt |-> FALSE,
          systemContent |-> <<>>]
    ELSE [messages |-> applySystemPromptFormat(
                           SelectSeq(msgs, IsNotSystem), Trim(AllSystemContent(msgs, cfg)),
                           cfg.systemPromptFormat),
          hasSystemPrompt |-> TRUE,
          systemContent |-> Trim(AllSystemContent(msgs, cfg))]

processSystemPrompts(msgs, cfg) ==
    IF ~cfg.enableSystemPromptProcessing
    THEN [messages |-> MapSystemToUser(msgs), hasSystemPrompt |-> FALSE,
          systemContent |-> <<>>]
    ELSE LET nonSystemMessages == SelectSeq(msgs, IsNotSystem)
             allSystemContent == AllSystemContent(msgs, cfg)
         IN IF Trim(allSystemContent) = <<>>
            THEN [messages |-> MapSystemToUser(msgs), hasSystemPrompt |-> FALSE,
                  systemContent |-> <<>>]
            ELSE [messages |-> applySystemPromptFormat(
                                   nonSystemMessages, Trim(allSystemContent),
                                   cfg.systemPromptFormat),
                  hasSystemPrompt |-> TRUE,
                  systemContent |-> Trim(allSystemContent)]

----------------------------------------------------------------------------
(* The same functions over objects: which messages of the result are the
   caller's own objects and which are new ones.  A heap is the sequence of all
   message objects, an array is a sequence of positions in it; the caller's
   messages are the first objects of the heap. *)

Allocated(objects, refs) == [objects |-> objects, refs |-> refs]

Deref(objects, refs) == [i \in 1..Len(refs) |-> objects[refs[i]]]

\* SystemToUserRef that assigns the role on the object it was given
SystemToUserRef_InPlace(objects, ref) ==
    Allocated([objects EXCEPT ![ref] = SystemToUser(@)], <<ref>>)

\* message => role === 'system' ? { ...message, role: 'user' } : message
\* the spread makes a new object, the other branch returns the one it got
SystemToUserRef(objects, ref) ==
    IF objects[ref].role = "system"
    THEN Allocated(Append(objects, SystemToUser(objects[ref])), <<Len(objects) + 1>>)
    ELSE Allocated(objects, <<ref>>)

\* messages.map(...) of the two pass-through branches: a new array
RECURSIVE MapSystemToUserRefs(_, _, _)
MapSystemToUserRefs(objects, refs, out) ==
    IF refs = <<>> THEN Allocated(objects, out)
    ELSE LET first == SystemToUserRef(objects, Head(refs))
         IN MapSystemToUserRefs(first.objects, Tail(refs), out \o first.refs)

\* applySystemPromptFormat: object literals and spreads are new objects,
\* ...restMessages and the default branch hand on the objects they got
applySystemPromptFormatRefs(objects, refs, systemContent, format) ==
    LET out == applySystemPromptFormat(Deref(objects, refs), systemContent, format)
        fresh == [i \in 1..Len(out) |-> Len(objects) + i]
    IN IF Len(refs) = 0 THEN Allocated(objects \o out, fresh)
       ELSE CASE format \in {"merge", "simple_prepend"} ->
                   Allocated(Append(objects, out[1]), <<Len(objects) + 1>> \o Tail(refs))
              [] format = "assistant_acknowledgment" ->
                   Allocated(objects \o out, fresh)
              [] OTHER -> Allocated(objects, refs)

\* processSystemPrompts called with the array <<1, .., Len(msgs)>> over the
\* heap msgs; forEach pushes the objects themselves onto two new arrays
processSystemPromptsRefs(msgs, cfg) ==
    LET input == [i \in 1..Len(msgs) |-> i]
        nonSystemMessages == SelectSeq(input, LAMBDA r : IsNotSystem(msgs[r]))
    IN IF ~cfg.enableSystemPromptProcessing \/ Trim(AllSystemContent(msgs, cfg)) = <<>>
       THEN MapSystemToUserRefs(msgs, input, <<>>)
       ELSE applySystemPromptFormatRefs(msgs, nonSystemMessages,
                                        Trim(AllSystemContent(msgs, cfg)),
                                        cfg.systemPromptFormat)

\* the caller's array and objects once the call has returned
InputAfter(msgs, cfg) == SubSeq(processSystemPromptsRefs(msgs, cfg).objects, 1, Len(msgs))

----------------------------------------------------------------------------
(* Tool signatures and the catalog seed (claudeTools.ts) *)

Schema(properties, required, hasRequired) ==
    [properties |-> properties, required |-> required, hasRequired |-> hasRequired]

Signature(name, description, parameters) ==
    [name |-> name, description |-> description, parameters |-> parameters]

BuiltinNames ==
    <<"Task", "Bash", "Glob", "Grep", "LS", "exit_plan_mode", "Read", "Edit",
      "MultiEdit", "Write", "NotebookRead", "NotebookEdit", "WebFetch",
      "TodoRead", "TodoWrite", "WebSearch">>

\* the 16 hand-written entries; their schemas are not told apart here
BuiltinSignature(name) ==
    Signature(name, "Claude Code official tool", Schema({"(official)"}, <<>>, TRUE))

BuiltinCatalog == [i \in 1..Len(BuiltinNames) |-> BuiltinSignature(BuiltinNames[i])]

\* claudeToolSignatures.find(t => t.name === toolName) / findIndex
CatalogNames(sigs) == {sigs[i].name : i \in 1..Len(sigs)}

\* findIndex that looks at the built-in entries only
FindIndex_Builtins(sigs, name) ==
    IF \E i \in 1..16 : sigs[i].name = name
    THEN CHOOSE i \in 1..16 : sigs[i].name = name
    ELSE 0

FindIndex(sigs, name) ==
    IF name \in CatalogNames(sigs)
    THEN CHOOSE i \in 1..Len(sigs) :
             sigs[i].name = name /\ \A j \in 1..(i - 1) : sigs[j].name # name
    ELSE 0

----------------------------------------------------------------------------
(* Tool discovery (server.ts:562-725) *)

\* own keys of the commonPatterns object literal
PatternKeys ==
    {"cat", "ls", "cp", "mv", "rm", "git", "npm", "python", "default"}

\* keys every object literal inherits from Object.prototype; commonPatterns[key]
\* finds them too, and each is a truthy function
PrototypeKeys ==
    {"constructor", "toString", "valueOf", "hasOwnProperty", "isPrototypeOf",
     "propertyIsEnumerable", "toLocaleString"}

\* Function.prototype.name of the inherited value; a function has no
\* description and no parameters
InheritedValue(key) ==
    Signature(IF key = "constructor" THEN "Object" ELSE key, "undefined",
              Schema({}, <<>>, FALSE))

\* commonPatterns.default
GenericSignature(toolName) ==
    Signature(toolName, "Dynamically discovered tool: " \o toolName,
              Schema({"args", "input"}, <<>>, FALSE))

\* the hand-authored entries of commonPatterns
PatternSignature(key, toolName) ==
    CASE key = "cat" -> Signature("cat", "Display file contents",
                                  Schema({"file"}, <<"file">>, TRUE))
      [] key = "ls" -> Signature("ls", "List directory contents",
                                 Schema({"path"}, <<>>, FALSE))
      [] key = "cp" -> Signature("cp", "Copy files",
                                 Schema({"source", "dest"}, <<"source", "dest">>, TRUE))
      [] key = "mv" -> Signature("mv", "Move files",
                                 Schema({"source", "dest"}, <<"source", "dest">>, TRUE))
      [] key = "rm" -> Signature("rm", "Remove files",
                                 Schema({"path"}, <<"path">>, TRUE))
      [] key = "git" -> Signature("git", "Git version control",
                                  Schema({"command"}, <<"command">>, TRUE))
      [] key = "npm" -> Signature("npm", "Node package manager",
                                  Schema({"command"}, <<"command">>, TRUE))
      [] key = "python" -> Signature("python", "Python interpreter",
                                     Schema({"code"}, <<"code">>, TRUE))
      [] OTHER -> GenericSignature(toolName)

\* commonPatterns[toolName]: own key, else inherited key, else undefined
\* return commonPatterns[toolName] || commonPatterns.default
tryCommonToolPatterns(toolName) ==
    IF toolName \in PatternKeys THEN PatternSignature(toolName, toolName)
    ELSE IF toolName \in PrototypeKeys THEN InheritedValue(toolName)
    ELSE PatternSignature("default", toolName)

\* parseToolFromHelpOutput
parseToolFromHelpOutput(toolName) ==
    Signature(toolName, "Dynamically discovered tool: " \o toolName,
              Schema({"input"}, <<"input">>, TRUE))

\* the name of a signature object that has no name property (undefined)
NoName == "(undefined)"

\* what discoverToolDefinition resolves to when no signature comes back
NullSignature == Signature("(null)", "(null)", Schema({}, <<>>, FALSE))

\* tryCommandSequentially: probe is, per command, whether exec gave output
RECURSIVE tryCommandSequentially(_, _, _)
tryCommandSequentially(probe, index, toolName) ==
    IF index > Len(probe) THEN NullSignature
    ELSE IF probe[index] THEN parseToolFromHelpOutput(toolName)
    ELSE tryCommandSequentially(probe, index + 1, toolName)

\* Strategy 1 is taken whenever tryCommonToolPatterns returns a truthy value
discoverToolDefinition(toolName, probe) ==
    LET commonTool == tryCommonToolPatterns(toolName)
    IN IF commonTool # NullSignature THEN commonTool
       ELSE tryCommandSequentially(probe, 1, toolName)

----------------------------------------------------------------------------
(* The registrar (extension.ts:14-144, 438-460) *)

\* the registrar's state, threaded through the calls of one handler
RegState(sigs, reg, oks, fails) ==
    [sigs |-> sigs, reg |-> reg, oks |-> oks, fails |-> fails]

Outcome(st, result, invoked) == [st |-> st, result |-> result, invoked |-> invoked]

\* RegisterWithEnvironment that adds the name also when the primitive throws
RegisterWithEnvironment_AddOnThrow(st, name, envOk) ==
    IF envOk
    THEN Outcome([st EXCEPT !.reg = @ \cup {name}, !.oks[name] = @ + 1], TRUE, {name})
    ELSE Outcome([st EXCEPT !.reg = @ \cup {name}, !.fails = @ + 1], FALSE, {name})

\* RegisterWithEnvironment that keeps only the new name in the registration set
RegisterWithEnvironment_Replace(st, name, envOk) ==
    IF envOk
    THEN Outcome([st EXCEPT !.reg = {name}, !.oks[name] = @ + 1], TRUE, {name})
    ELSE Outcome([st EXCEPT !.fails = @ + 1], FALSE, {name})

\* vscode.lm.registerTool(name, ...) followed by dummyRegistry.add(name); envOk
\* is whether the call returned a disposable rather than throwing
RegisterWithEnvironment(st, name, envOk) ==
    IF envOk
    THEN Outcome([st EXCEPT !.reg = @ \cup {name}, !.oks[name] = @ + 1], TRUE, {name})
    ELSE Outcome([st EXCEPT !.fails = @ + 1], FALSE, {name})

\* registerToolDynamically without the lookup of the name in the catalog
registerToolDynamically_NoLookup(st, toolName, envOk) ==
    IF toolName \in st.reg THEN Outcome(st, TRUE, {})
    ELSE RegisterWithEnvironment(st, toolName, envOk)

\* registerToolDynamically without the dummyRegistry.has(toolName) early return
registerToolDynamically_NoGuard(st, toolName, envOk) ==
    IF toolName \notin CatalogNames(st.sigs) THEN Outcome(st, FALSE, {})
    ELSE RegisterWithEnvironment(st, toolName, envOk)

registerToolDynamically(st, toolName, envOk) ==
    IF toolName \notin CatalogNames(st.sigs) THEN Outcome(st, FALSE, {})
    ELSE IF toolName \in st.reg THEN Outcome(st, TRUE, {})
    ELSE RegisterWithEnvironment(st, toolName, envOk)

\* registerMCPTool without the dummyRegistry.has(toolName) early return
registerMCPTool_NoGuard(st, toolName, context, envOk) ==
    IF ~context THEN Outcome(st, FALSE, {})
    ELSE RegisterWithEnvironment(st, toolName, envOk)

\* registerMCPTool: no catalog lookup, the context is read from the module
registerMCPTool(st, toolName, context, envOk) ==
    IF ~context THEN Outcome(st, FALSE, {})
    ELSE IF toolName \in st.reg THEN Outcome(st, TRUE, {})
    ELSE RegisterWithEnvironment(st, toolName, envOk)

\* addDiscoveredTool that pushes without looking for an entry of that name
addDiscoveredTool_AlwaysPush(st, toolSignature) ==
    IF toolSignature = NullSignature THEN Outcome(st, FALSE, {})
    ELSE Outcome([st EXCEPT !.sigs = Append(@, toolSignature)], TRUE, {})

\* addDiscoveredTool that drops the entry of that name and pushes the new one
addDiscoveredTool_MoveToEnd(st, toolSignature) ==
    IF toolSignature = NullSignature THEN Outcome(st, FALSE, {})
    ELSE Outcome([st EXCEPT !.sigs =
                      Append(SelectSeq(@, LAMBDA t : t.name # toolSignature.name),
                             toolSignature)], TRUE, {})

\* addDiscoveredTool: replace in place by name, else push; reading the name
\* of a null signature throws inside the try block and the catch returns
\* false (extension.ts:42-47); a signature without a name compares its
\* undefined name like any other
addDiscoveredTool(st, toolSignature) ==
    IF toolSignature = NullSignature THEN Outcome(st, FALSE, {})
    ELSE LET existingIndex == FindIndex(st.sigs, toolSignature.name)
         IN IF existingIndex # 0
            THEN Outcome([st EXCEPT !.sigs[existingIndex] = toolSignature], TRUE, {})
            ELSE Outcome([st EXCEPT !.sigs = Append(@, toolSignature)], TRUE, {})

\* registerClaudeCodeTools: every catalog entry not yet registered, in order;
\* rejected is the set of names for which the environment throws
RECURSIVE registerClaudeCodeTools(_, _, _)
registerClaudeCodeTools(st, index, rejected) ==
    IF index > Len(st.sigs) THEN st
    ELSE LET name == st.sigs[index].name
         IN IF name \in st.reg
            THEN registerClaudeCodeTools(st, index + 1, rejected)
            ELSE registerClaudeCodeTools(
                     RegisterWithEnvironment(st, name, name \notin rejected).st,
                     index + 1, rejected)

\* the atoms of a tool name, for String.prototype.includes between names
NameAtoms(name) == IF name = "fs_search" THEN <<"fs_", "search">> ELSE <<name>>

\* mcpTools.find(tool => tool.name === toolName || `${toolName}`.includes(tool.name))
FindMcpTool(tools, toolName) ==
    LET hits == {i \in 1..Len(tools) :
                    \/ tools[i] = toolName
                    \/ IsSubstring(NameAtoms(tools[i]), NameAtoms(toolName))}
    IN IF hits = {} THEN 0 ELSE CHOOSE i \in hits : \A j \in hits : i <= j

\* what mcpCallHandler does when the handler awaits it: it resolves to a
\* value of some kind ("content": an object with content parts, "string",
\* "object": any other object, "null") or rejects with an error
McpResolved(kind, value) == [kind |-> kind, value |-> value]
McpRejected(error) == [kind |-> "rejected", value |-> error]

McpPart(type, text) == [type |-> type, text |-> text]

\* the text parts of result.content, concatenated
RECURSIVE TextOfParts(_)
TextOfParts(parts) ==
    IF parts = <<>> THEN <<>>
    ELSE (IF Head(parts).type = "text" THEN Head(parts).text ELSE <<>>)
             \o TextOfParts(Tail(parts))

\* what invoke() did: the handler's outcome, whether invoke() itself rejected,
\* and the text of the LanguageModelToolResult it resolved to
ToolResult(tool, handler, threw, text) ==
    [tool |-> tool, handler |-> handler, threw |-> threw, text |-> text]

\* `Error executing MCP tool ${toolName}: ${error}`
McpErrorText(toolName, error) == <<"Error executing MCP tool ", toolName, ": ">> \o error

\* invoke() without its try block
mcpInvoke_NoCatch(toolName, handler) ==
    IF handler.kind \in {"rejected", "null"}
    THEN ToolResult(toolName, handler, TRUE, <<>>)
    ELSE ToolResult(toolName, handler, FALSE, <<"(result)">>)

\* the invoke() that registerMCPTool installs (extension.ts:69-95): reading
\* result.content of null throws a TypeError inside the try block
mcpInvoke(toolName, handler) ==
    IF handler.kind = "rejected"
    THEN ToolResult(toolName, handler, FALSE, McpErrorText(toolName, handler.value))
    ELSE IF handler.kind = "null"
    THEN ToolResult(toolName, handler, FALSE,
                    McpErrorText(toolName, <<"TypeError: ", "Cannot read properties of null">>))
    ELSE IF handler.kind = "content"
    THEN ToolResult(toolName, handler, FALSE, TextOfParts(handler.value))
    ELSE IF handler.kind = "string"
    THEN ToolResult(toolName, handler, FALSE, handler.value)
    ELSE ToolResult(toolName, handler, FALSE, <<"{">> \o handler.value \o <<"}">>)

\* the discover-and-register path of processStreamChunks once
\* discoverToolDefinition has resolved (server.ts:776-784)
discoverAndRegister(st, name, discoveredTool, context, envOk) ==
    IF discoveredTool = NullSignature \/ ~context THEN Outcome(st, FALSE, {})
    ELSE LET added == addDiscoveredTool(st, discoveredTool)
         IN IF added.result THEN registerToolDynamically(added.st, name, envOk)
            ELSE Outcome(added.st, FALSE, {})

\* one element of the tools array of GET /tools
ToolEntry(name, description) ==
    [type |-> "function", name |-> name, description |-> description]

\* GET /tools: the catalog entries, then mcpManager.getAvailableTools()
toolsListing(sigs, tools) ==
    [i \in 1..Len(sigs) |-> ToolEntry(sigs[i].name, sigs[i].description)]
        \o [i \in 1..Len(tools) |-> ToolEntry(tools[i], "MCP tool")]

\* the loop of ensureToolsRegistered over toolNames, from position index on
RECURSIVE ensureLoop(_, _, _, _, _, _)
ensureLoop(st, toolNames, index, tools, rejected, invoked) ==
    IF index > Len(toolNames) THEN Outcome(st, TRUE, invoked)
    ELSE LET toolName == toolNames[index]
             first == registerToolDynamically(st, toolName, toolName \notin rejected)
         IN IF first.result
            THEN ensureLoop(first.st, toolNames, index + 1, tools, rejected,
                            invoked \cup first.invoked)
            ELSE IF FindMcpTool(tools, toolName) # 0
            THEN LET second == registerMCPTool(first.st, toolName, TRUE,
                                               toolName \notin rejected)
                 IN ensureLoop(second.st, toolNames, index + 1, tools, rejected,
                               invoked \cup first.invoked \cup second.invoked)
            ELSE ensureLoop(first.st, toolNames, index + 1, tools, rejected,
                            invoked \cup first.invoked)

\* ensureToolsRegistered: nothing happens without an extension context
ensureToolsRegistered(st, toolNames, context, tools, rejected) ==
    IF ~context THEN Outcome(st, FALSE, {})
    ELSE ensureLoop(st, toolNames, 1, tools, rejected, {})

----------------------------------------------------------------------------
(* The streaming retry orchestrator (server.ts:451-559, 727-814) and the two
   streaming routes (server.ts:889-968, 1064-1125) *)

Sentinel == "dynamically discovered and registered"

\* `Tool ${chunk.name} was dynamically discovered and registered. Please retry your request.`
DiscoveryText(name) == <<"Tool ", name, " was ", Sentinel, ". Please retry your request.">>

\* `Error: ${errorMessage}`
ErrorText(errorMessage) == <<"Error: ">> \o errorMessage

\* errorMessage.includes('tool') &&
\*   (errorMessage.includes('not found') || errorMessage.includes('not registered'))
IsToolNotFound(errorMessage) ==
    /\ Includes(errorMessage, "tool")
    /\ Includes(errorMessage, "not found") \/ Includes(errorMessage, "not registered")

Frame(pc, attempt, tool) == [pc |-> pc, attempt |-> attempt, tool |-> tool]

Written(type, name, text) == [type |-> type, name |-> name, text |-> text]

Top(stk) == stk[Len(stk)]
Pop(stk) == SubSeq(stk, 1, Len(stk) - 1)
SetTop(stk, frame) == [stk EXCEPT ![Len(stk)] = frame]

Delivery(name, text, at, outcome) ==
    [name |-> name, text |-> text, at |-> at, outcome |-> outcome]

\* createRequestOptions(): { toolMode: Auto } for every request
RequestOptions == [toolMode |-> "auto"]

\* the three values createRetryableStreamProcessor stores in the context, and
\* the /v1/messages handler keeps in its locals
TurnRequest(chatRequest, requestOptions, model) ==
    [chatRequest |-> chatRequest, requestOptions |-> requestOptions, model |-> model]

\* the RetryContext as executeStreamWithRetry reads it
RetryContext(req, count) ==
    [chatRequest |-> req.chatRequest, requestOptions |-> req.requestOptions,
     model |-> req.model, retryCount |-> count]

\* a dispatch that appends a note about the retry to the messages
Dispatch_AppendOnRetry(context) ==
    [model |-> context.model,
     chatRequest |-> IF context.retryCount > 0
                     THEN Append(context.chatRequest, "tool: retry")
                     ELSE context.chatRequest,
     requestOptions |-> context.requestOptions]

\* context.model.sendRequest(context.chatRequest, context.requestOptions):
\* the receiver and the two arguments of the call
Dispatch(context) ==
    [model |-> context.model, chatRequest |-> context.chatRequest,
     requestOptions |-> context.requestOptions]

\* BeginToolCall that starts the invocation without writing the tool call
BeginToolCall_NoWrite(T, name) ==
    [T EXCEPT !.stack = SetTop(@, [Top(@) EXCEPT !.pc = "invoke", !.tool = name])]

\* a tool call part has come: await onToolCall(chunk) writes it, then
\* vscode.lm.invokeTool is called and awaited (server.ts:746-758)
BeginToolCall(T, name) ==
    [T EXCEPT !.sink = Append(@, Written("tool_call", name, <<>>)),
              !.stack = SetTop(@, [Top(@) EXCEPT !.pc = "invoke", !.tool = name])]

\* the await of invokeTool is over: the activation is inside the for-await
\* body again
EndInvoke(T) == [T EXCEPT !.stack = SetTop(@, [Top(@) EXCEPT !.pc = "loop"])]

\* the turn's state, threaded through the synchronous part of one step
TurnState ==
    [stack |-> stack, retryCount |-> retryCount, sink |-> sink, tpc |-> tpc,
     retryContexts |-> retryContexts, thrown |-> thrown, delivered |-> delivered,
     reg |-> RegState(claudeToolSignatures, dummyRegistry, registerOk, failures)]

\* the route's onToolResult handler: /chat/completions skips a result whose
\* text includes the sentinel (server.ts:941), /v1/messages writes every result
RouteOnToolResult(rt, written, name, text) ==
    IF rt = "chat" /\ Includes(text, Sentinel)
    THEN written
    ELSE Append(written, Written("tool_result", name, text))

\* what the route writes once the turn's processing has returned
RouteEpilogue(rt, written) ==
    IF rt = "chat"
    THEN Append(written, Written("done", "", <<"[DONE]">>))
    ELSE written \o <<Written("message_delta", "", <<>>), Written("message_stop", "", <<>>)>>

\* Return with the route's epilogue written when any activation returns
RECURSIVE Return_EpilogueEach(_, _)
Return_EpilogueEach(T, rt) ==
    LET rest == Pop(T.stack)
        T1 == [T EXCEPT !.sink = RouteEpilogue(rt, @)]
    IN IF rest = <<>>
       THEN [T1 EXCEPT !.stack = <<>>, !.tpc = "completed", !.retryContexts = {}]
       ELSE IF Top(rest).pc = "wait_disc"
       THEN Return_EpilogueEach([T1 EXCEPT !.stack = rest], rt)
       ELSE [T1 EXCEPT !.stack = SetTop(rest, [Top(rest) EXCEPT !.pc = "loop"])]

\* Return without the finally block that deletes the turn's retry context
RECURSIVE Return_KeepContext(_, _)
Return_KeepContext(T, rt) ==
    LET rest == Pop(T.stack)
    IN IF rest = <<>>
       THEN [T EXCEPT !.stack = <<>>, !.tpc = "completed",
                      !.sink = RouteEpilogue(rt, @)]
       ELSE IF Top(rest).pc = "wait_disc"
       THEN Return_KeepContext([T EXCEPT !.stack = rest], rt)
       ELSE [T EXCEPT !.stack = SetTop(rest, [Top(rest) EXCEPT !.pc = "loop"])]

\* the top activation returns normally: its caller resumes where it awaited it
RECURSIVE Return(_, _)
Return(T, rt) ==
    LET rest == Pop(T.stack)
    IN IF rest = <<>>
       THEN [T EXCEPT !.stack = <<>>, !.tpc = "completed", !.retryContexts = {},
                      !.sink = RouteEpilogue(rt, @)]
       ELSE IF Top(rest).pc = "wait_disc"
       THEN Return([T EXCEPT !.stack = rest], rt)
       ELSE [T EXCEPT !.stack = SetTop(rest, [Top(rest) EXCEPT !.pc = "loop"])]

\* retryableOnToolResult whose retry test ignores the budget
RetryWanted_NoBudget(T, rt, text) == rt = "chat" /\ Includes(text, Sentinel)

\* resultText.includes('dynamically discovered and registered') &&
\*   context.retryCount < maxRetries; only /chat/completions wraps the handler
RetryWanted(T, rt, text) ==
    rt = "chat" /\ Includes(text, Sentinel) /\ T.retryCount < MaxRetries

\* DeliverToolResult whose retry leaves context.retryCount as it is
DeliverToolResult_NoCount(T, rt, site, name, text) ==
    IF RetryWanted(T, rt, text)
    THEN [T EXCEPT !.stack = Append(SetTop(@, [Top(@) EXCEPT !.pc = "wait_" \o site,
                                                            !.tool = name]),
                                    Frame("send", 0, "")),
                   !.delivered = Delivery(name, text, T.retryCount, "retried")]
    ELSE LET after == RouteOnToolResult(rt, T.sink, name, text)
             T1 == [T EXCEPT !.sink = after,
                             !.delivered = Delivery(name, text, T.retryCount,
                                 IF after = T.sink THEN "dropped" ELSE "written")]
         IN IF site = "disc" THEN Return(T1, rt) ELSE T1

\* DeliverToolResult without the return that follows the await at line 795
DeliverToolResult_NoReturn(T, rt, site, name, text) ==
    IF RetryWanted(T, rt, text)
    THEN [T EXCEPT !.retryCount = @ + 1,
                   !.stack = Append(SetTop(@, [Top(@) EXCEPT !.pc = "wait_" \o site,
                                                            !.tool = name]),
                                    Frame("send", 0, "")),
                   !.delivered = Delivery(name, text, T.retryCount, "retried")]
    ELSE LET after == RouteOnToolResult(rt, T.sink, name, text)
         IN [T EXCEPT !.sink = after,
                      !.delivered = Delivery(name, text, T.retryCount,
                          IF after = T.sink THEN "dropped" ELSE "written")]

\* await onToolResult(callId, name, result) at one of the three call sites of
\* processStreamChunks: "try" (line 760), "disc" (line 795, followed by
\* return), "err" (line 809)
DeliverToolResult(T, rt, site, name, text) ==
    IF RetryWanted(T, rt, text)
    THEN [T EXCEPT !.retryCount = @ + 1,
                   !.stack = Append(SetTop(@, [Top(@) EXCEPT !.pc = "wait_" \o site,
                                                            !.tool = name]),
                                    Frame("send", 0, "")),
                   !.delivered = Delivery(name, text, T.retryCount, "retried")]
    ELSE LET after == RouteOnToolResult(rt, T.sink, name, text)
             T1 == [T EXCEPT !.sink = after,
                             !.delivered = Delivery(name, text, T.retryCount,
                                 IF after = T.sink THEN "dropped" ELSE "written")]
         IN IF site = "disc" THEN Return(T1, rt) ELSE T1

\* a catch block that throws the error on, which ends the turn
HandleInvokeError_Rethrow(T, rt, name, errorMessage, context, envOk, execOut) ==
    [T EXCEPT !.stack = <<>>, !.tpc = "failed", !.retryContexts = {},
              !.thrown = errorMessage,
              !.delivered = Delivery(name, ErrorText(errorMessage), T.retryCount, "none")]

\* the catch block of processStreamChunks (lines 761-810)
HandleInvokeError(T, rt, name, errorMessage, context, envOk, execOut) ==
    IF IsToolNotFound(errorMessage)
    THEN LET discoveredTool == discoverToolDefinition(name, execOut)
             added == addDiscoveredTool(T.reg, discoveredTool)
             registered == registerToolDynamically(added.st, name, envOk)
         IN IF discoveredTool # NullSignature /\ context
            THEN IF added.result /\ registered.result
                 THEN DeliverToolResult([T EXCEPT !.reg = registered.st], rt, "disc",
                                        name, DiscoveryText(name))
                 ELSE DeliverToolResult([T EXCEPT !.reg = registered.st], rt, "err",
                                        name, ErrorText(errorMessage))
            ELSE DeliverToolResult(T, rt, "err", name, ErrorText(errorMessage))
    ELSE DeliverToolResult(T, rt, "err", name, ErrorText(errorMessage))

\* the top activation throws: the error leaves every activation that awaited
\* it outside a try block, and is caught where onToolResult was awaited inside
\* the try block of processStreamChunks (line 760)
RECURSIVE Throw(_, _, _, _, _, _)
Throw(T, rt, errorMessage, context, envOk, execOut) ==
    LET rest == Pop(T.stack)
    IN IF rest = <<>>
       THEN [T EXCEPT !.stack = <<>>, !.tpc = "failed", !.retryContexts = {},
                      !.thrown = errorMessage]
       ELSE IF Top(rest).pc = "wait_try"
       THEN HandleInvokeError(
                [T EXCEPT !.stack = SetTop(rest, [Top(rest) EXCEPT !.pc = "loop"])],
                rt, Top(rest).tool, errorMessage, context, envOk, execOut)
       ELSE Throw([T EXCEPT !.stack = rest], rt, errorMessage, context, envOk, execOut)

----------------------------------------------------------------------------
(* The route handlers up to the response (server.ts:853-1004, 1029-1163) *)

\* config.defaultModel
DefaultModel == "gpt-4.1"

\* findModelWithFallback returned no model (undefined or null)
NoModel == "(none)"

\* vscode.lm.selectChatModels({ id }) followed by models.find(m => m.id === id):
\* the id when the call returns a model of that id, NoModel when it returns
\* none or throws
SelectChatModel(id, available, throwing) ==
    IF id \in throwing THEN NoModel
    ELSE IF id \in available THEN id ELSE NoModel

\* the parsed request: valid is whether c.req.json() resolves
Body(valid, hasMessages, model, stream, toolNames) ==
    [valid |-> valid, hasMessages |-> hasMessages, model |-> model, stream |-> stream,
     toolNames |-> toolNames]

\* the request as the response record keeps it: the route, the body without
\* its tool names (they are in lastOp), and the tool names for which
\* vscode.lm.registerTool threw while the request was handled
Exchange(rt, body, rejected) ==
    [route |-> rt, body |-> [body EXCEPT !.toolNames = <<>>], rejected |-> rejected]

\* c.json(createErrorResponse(message, status, type), status) or the 200
\* response, kept with the request it answers; sendThrew is set where the
\* handler's model.sendRequest has thrown
Response(req, found, status, kind, type, model, dispatched) ==
    [route |-> req.route, body |-> req.body, rejected |-> req.rejected, found |-> found,
     status |-> status, kind |-> kind, type |-> type, model |-> model,
     dispatched |-> dispatched, sendThrew |-> FALSE]

\* the catch block of the route: 500 with the route's error type
InternalError(req, found, dispatched) ==
    Response(req, found, 500, "error",
             IF req.route = "chat" THEN "internal_error" ELSE "api_error", "", dispatched)

\* the 400 of a request for which no model was found
ModelNotFound(req, found) ==
    Response(req, found, 400, "error",
             IF req.route = "chat" THEN "internal_error" ELSE "invalid_request_error",
             "", {})

NothingFound == [requested |-> FALSE, default |-> FALSE]

\* the handler of either route up to its first suspension: c.req.json()
\* rejects for a body that is not JSON, which lands in the catch block;
\* otherwise the tool names are extracted and ensureToolsRegistered runs its
\* loop and then awaits its timer (server.ts:448)
receiveRequest(st, rt, body, context, tools, rejected) ==
    LET ensured == ensureToolsRegistered(st, body.toolNames, context, tools, rejected)
    IN IF ~body.valid
       THEN [st |-> st, invoked |-> {},
             response |-> InternalError(Exchange(rt, body, {}), NothingFound, {})]
       ELSE [st |-> ensured.st, invoked |-> ensured.invoked,
             response |-> Response(Exchange(rt, body, ensured.invoked \ ensured.st.reg),
                                   NothingFound, 0, "pending", "", "", {})]

\* findModelWithFallback without the second lookup
findModelWithFallback_NoFallback(requestedModel, defaultModel, available, throwing) ==
    SelectChatModel(requestedModel, available, throwing)

findModelWithFallback(requestedModel, defaultModel, available, throwing) ==
    IF SelectChatModel(requestedModel, available, throwing) # NoModel
    THEN requestedModel
    ELSE SelectChatModel(defaultModel, available, throwing)

\* the rest of the handler: findModelWithFallback, processSystemPrompts, which
\* throws on body.messages being undefined, and the dispatch to the model.
\* found says, for the requested and the default id, whether the lookup
\* returned that model.  The streaming /chat/completions branch returns
\* stream(c, ...) first and calls sendRequest inside the stream callback
\* (server.ts:889-891, 511), so the 200 response has begun when it throws;
\* every other branch awaits sendRequest before it answers.
respond(req, available, throwing, sendOk) ==
    LET body == req.body
        found == [requested |-> SelectChatModel(body.model, available, throwing) # NoModel,
                  default |-> SelectChatModel(DefaultModel, available, throwing) # NoModel]
        model == findModelWithFallback(body.model, DefaultModel, available, throwing)
    IN IF model = NoModel THEN ModelNotFound(req, found)
       ELSE IF ~body.hasMessages THEN InternalError(req, found, {})
       ELSE IF body.stream /\ req.route = "chat"
       THEN [Response(req, found, 200, "stream", "", "", {model})
                EXCEPT !.sendThrew = ~sendOk]
       ELSE IF ~sendOk THEN [InternalError(req, found, {model}) EXCEPT !.sendThrew = TRUE]
       ELSE Response(req, found, 200, IF body.stream THEN "stream" ELSE "json",
                     "", model, {model})

----------------------------------------------------------------------------
(* Inputs that are enumerated *)

Contents ==
    {StringContent(<<>>), StringContent(<<" ">>), StringContent(<<"a">>),
     PartsContent(<<"a">>)}

MessageValues == {Message(r, c) : r \in Roles, c \in Contents}

RECURSIVE SeqsUpTo(_, _)
SeqsUpTo(S, n) ==
    IF n = 0 THEN {<<>>}
    ELSE LET shorter == SeqsUpTo(S, n - 1)
         IN shorter \cup {Append(s, x) : s \in {t \in shorter : Len(t) = n - 1}, x \in S}

SystemPrompts == {<<>>, <<" ">>, <<"S">>}

Configs ==
    [systemPrompt : SystemPrompts,
     systemPromptFormat : SystemPromptFormats,
     enableSystemPromptProcessing : BOOLEAN]

NotYet == [messages |-> <<>>, hasSystemPrompt |-> FALSE, systemContent |-> <<"not yet">>]

\* tool names that requests and the tests use: a built-in, a pattern-table
\* name, a name nobody knows, and a name that contains a provider tool's name
ToolNames == {"Read", "git", "unknown_tool", "fs_search"}

\* the external tool provider offers one tool
McpTools == <<"search">>

\* the MCP clients of config.mcpClients
McpClients == {"alpha", "beta"}

\* response.tools of the client's answer to tools/list: the names
Provides(client) ==
    IF client = "alpha" THEN <<"search", "read">> ELSE <<"fetch", "list">>

\* every tool name some client provides
ProvidedNames == UNION {{Provides(c)[i] : i \in 1..Len(Provides(c))} : c \in McpClients}

\* `${clientName}:${tool.name}`
PrefixedName(clientName, tool) == clientName \o ":" \o tool

AllNames ==
    {BuiltinNames[i] : i \in 1..Len(BuiltinNames)} \cup ToolNames
        \cup PatternKeys \cup PrototypeKeys \cup {"Object", "search"}
        \cup {PrefixedName(c, t) : c \in McpClients, t \in ProvidedNames}

\* names handed to discoverToolDefinition
DiscoveryNames == PatternKeys \cup PrototypeKeys \cup {"unknown_tool", "Read", "fs_search"}

\* exec outcomes of the three probe commands
Probes == [1..3 -> BOOLEAN]

NoProbe == [i \in 1..3 |-> FALSE]

\* signatures handed to addDiscoveredTool by a direct call
DiscoveredSignatures ==
    {discoverToolDefinition("git", NoProbe),
     Signature("Read", "Updated description", Schema({"input"}, <<>>, TRUE))}
        \cup {NullSignature,
              Signature(NoName, "A test tool", Schema({"input"}, <<"input">>, TRUE))}

\* toolNames of a request: duplicates removed (server.ts:404)
ToolNameLists ==
    {s \in SeqsUpTo(ToolNames, MaxTools) : \A i, j \in 1..Len(s) : i # j => s[i] # s[j]}

\* tools the model calls in a turn: one nobody has registered
TurnTools == {"unknown_tool"}

\* text chunk values
TextValues == {"a", "b"}

\* what vscode.lm.invokeTool resolves to: the stub's text, or a text that
\* carries the sentinel
ResultTexts == {<<"(executed by Claude Code)">>, <<"Tool x was ", Sentinel, ".">>}

\* messages of the errors that invokeTool and sendRequest throw
ErrorMessages == {<<"tool", " x ", "not found">>, <<"request failed">>}

Routes == {"chat", "messages"}

\* what a turn is started with: the converted messages and the model found
TurnRequests ==
    {TurnRequest(<<"user: a">>, RequestOptions, "gpt-4"),
     TurnRequest(<<"user: a", "assistant: b", "user: c">>, RequestOptions, DefaultModel)}

NoRequest == TurnRequest(<<>>, RequestOptions, NoModel)

\* outcomes of the provider's call handler
McpOutcomes ==
    {McpRejected(<<"Error: ", "connection closed">>),
     McpRejected(<<"timeout">>),
     McpResolved("null", <<>>),
     McpResolved("content", <<McpPart("text", <<"a">>), McpPart("image", <<"b">>),
                              McpPart("text", <<"c">>)>>),
     McpResolved("content", <<>>),
     McpResolved("string", <<"a">>),
     McpResolved("object", <<"isError">>)}

\* model ids of requests; the second is the configured default
ModelIds == {"gpt-4", DefaultModel}

\* request bodies: one that is not JSON, and JSON bodies with and without messages
Bodies ==
    {Body(FALSE, FALSE, "", FALSE, <<>>)}
        \cup {Body(TRUE, hasMessages, "gpt-4", stream, toolNames) :
                 hasMessages \in BOOLEAN, stream \in BOOLEAN,
                 toolNames \in {<<>>, <<"fs_search">>, <<"Read">>}}

----------------------------------------------------------------------------
(* Initial states of the components *)

NoOp == [op |-> "none", names |-> <<>>, result |-> FALSE, invoked |-> {},
         absent |-> {}, before |-> {}, repeats |-> "no"]

\* module load: the catalog holds the built-ins, nothing is registered
RegInit ==
    /\ claudeToolSignatures = BuiltinCatalog
    /\ dummyRegistry = {}
    /\ extensionContext = FALSE
    /\ mcpTools = McpTools
    /\ registerOk = [n \in AllNames |-> 0]
    /\ failures = 0
    /\ lastOp = NoOp

NormIdle ==
    /\ messages = <<>>
    /\ config = [systemPrompt |-> <<>>, systemPromptFormat |-> "merge",
                 enableSystemPromptProcessing |-> TRUE]
    /\ processed = NotYet
    /\ npc = "input"

DiscIdle ==
    /\ discName = "unknown_tool"
    /\ execOutput = NoProbe
    /\ discovered = NullSignature
    /\ dpc = "input"

TurnIdle ==
    /\ route = "chat"
    /\ tpc = "idle"
    /\ retryContexts = {}
    /\ retryCount = 0
    /\ stack = <<>>
    /\ attempts = <<>>
    /\ sendRequests = 0
    /\ request = NoRequest
    /\ sent = <<>>
    /\ sink = <<>>
    /\ thrown = <<>>
    /\ delivered = Delivery("", <<>>, 0, "none")

NoResponse ==
    Response(Exchange("chat", Body(FALSE, FALSE, "", FALSE, <<>>), {}), NothingFound,
             0, "none", "", "", {})

\* two requests are in flight at most
Turns == {1, 2}

\* a turn that is not in the catch block of processStreamChunks
NoDiscovery == [name |-> "", tool |-> NullSignature]

NoToolResult == ToolResult("", McpResolved("none", <<>>), FALSE, <<>>)

\* the registrar part of a stored turn state: it is read from the module's
\* variables when the turn takes a step
NoReg == RegState(<<>>, {}, <<>>, 0)

\* a turn before its request has arrived
IdleTurn ==
    [stack |-> <<>>, retryCount |-> 0, sink |-> <<>>, tpc |-> "idle",
     retryContexts |-> {}, thrown |-> <<>>, delivered |-> Delivery("", <<>>, 0, "none"),
     reg |-> NoReg]

\* one concurrent turn: its activations and sink (state), the contextId
\* createRetryableStreamProcessor made for it, the parts its streams have
\* given, and what its calls of sendRequest were given
Flight(state, id, chunks, dispatched) ==
    [state |-> state, id |-> id, chunks |-> chunks, sent |-> dispatched]

\* updateConfig has not been called
NoConfig ==
    [systemPrompt |-> <<>>, systemPromptFormat |-> "(none)",
     enableSystemPromptProcessing |-> FALSE]

SrvIdle ==
    /\ contextStore = <<>>
    /\ flights = [t \in Turns |-> Flight(IdleTurn, 0, 0, <<>>)]
    /\ deliveredConfig = NoConfig
    /\ mcpManagerTools = <<>>

HttpIdle ==
    /\ response = NoResponse
    /\ listing = <<>>
    /\ pending = [t \in Turns |-> NoDiscovery]
    /\ toolResult = NoToolResult
    /\ SrvIdle

\* the extension has been activated: the context is stored and every built-in
\* is registered (extension.ts:148, 172)
Activated ==
    /\ claudeToolSignatures = BuiltinCatalog
    /\ dummyRegistry = CatalogNames(BuiltinCatalog)
    /\ extensionContext = TRUE
    /\ mcpTools = McpTools
    /\ registerOk = [n \in AllNames |-> IF n \in CatalogNames(BuiltinCatalog) THEN 1 ELSE 0]
    /\ failures = 0
    /\ lastOp = NoOp

----------------------------------------------------------------------------
(* Normalizer specification: every bounded request and configuration *)

NormInit ==
    /\ messages \in SeqsUpTo(MessageValues, MaxMsgs)
    /\ config \in Configs
    /\ processed = NotYet
    /\ npc = "input"
    /\ RegInit
    /\ DiscIdle
    /\ TurnIdle
    /\ HttpIdle

\* const convertedMsgs = processSystemPrompts(body.messages, config)
Normalize ==
    /\ npc = "input"
    /\ processed' = processSystemPrompts(messages, config)
    /\ messages' = InputAfter(messages, config)
    /\ npc' = "done"
    /\ UNCHANGED <<config, regVars, discVars, turnVars, httpVars>>

NormNext == Normalize

SpecNorm == NormInit /\ [][NormNext]_vars

----------------------------------------------------------------------------
(* Discovery specification: every bounded name and probe outcome *)

DiscInit ==
    /\ discName \in DiscoveryNames
    /\ execOutput \in Probes
    /\ discovered = NullSignature
    /\ dpc = "input"
    /\ RegInit
    /\ NormIdle
    /\ TurnIdle
    /\ HttpIdle

\* const discoveredTool = await discoverToolDefinition(chunk.name)
DiscoverToolDefinition ==
    /\ dpc = "input"
    /\ discovered' = discoverToolDefinition(discName, execOutput)
    /\ dpc' = "done"
    /\ UNCHANGED <<discName, execOutput, regVars, normVars, turnVars, httpVars>>

DiscNext == DiscoverToolDefinition

SpecDisc == DiscInit /\ [][DiscNext]_vars

----------------------------------------------------------------------------
(* Registrar specification: the exported calls in any order *)

Current == RegState(claudeToolSignatures, dummyRegistry, registerOk, failures)

\* the registrar variables after a call, and the record of the call: which
\* names were absent from the catalog before it, the registration set before
\* it, and whether the call before it was the same call ("ok" / "failed")
Commit(out, op, names) ==
    /\ out.st.fails <= MaxFailures
    /\ claudeToolSignatures' = out.st.sigs
    /\ dummyRegistry' = out.st.reg
    /\ registerOk' = out.st.oks
    /\ failures' = out.st.fails
    /\ lastOp' = [op |-> op, names |-> names, result |-> out.result,
                  invoked |-> out.invoked,
                  absent |-> {names[i] : i \in 1..Len(names)}
                                \ CatalogNames(claudeToolSignatures),
                  before |-> dummyRegistry,
                  repeats |-> IF lastOp.op = op /\ lastOp.names = names
                              THEN IF lastOp.result THEN "ok" ELSE "failed"
                              ELSE "no"]

\* activate(): stores the context and runs registerClaudeCodeTools
Activate ==
    /\ ~extensionContext
    /\ extensionContext' = TRUE
    /\ \E rejected \in SUBSET ToolNames :
           Commit(Outcome(registerClaudeCodeTools(Current, 1, rejected), TRUE, {}),
                  "activate", <<>>)
    /\ UNCHANGED <<mcpTools, discVars, normVars, turnVars, httpVars>>

RegisterToolDynamically ==
    /\ extensionContext
    /\ \E name \in ToolNames, envOk \in BOOLEAN :
           Commit(registerToolDynamically(Current, name, envOk),
                  "registerToolDynamically", <<name>>)
    /\ UNCHANGED <<extensionContext, mcpTools, discVars, normVars, turnVars, httpVars>>

AddDiscoveredTool ==
    /\ \E sig \in DiscoveredSignatures :
           Commit(addDiscoveredTool(Current, sig), "addDiscoveredTool", <<sig.name>>)
    /\ UNCHANGED <<extensionContext, mcpTools, discVars, normVars, turnVars, httpVars>>

RegisterMCPTool ==
    /\ \E envOk \in BOOLEAN :
           Commit(registerMCPTool(Current, "search", extensionContext, envOk),
                  "registerMCPTool", <<"search">>)
    /\ UNCHANGED <<extensionContext, mcpTools, discVars, normVars, turnVars, httpVars>>

\* await ensureToolsRegistered(toolNames, mcpManager) of a request
EnsureToolsRegistered ==
    /\ extensionContext
    /\ \E toolNames \in ToolNameLists, rejected \in SUBSET ToolNames :
           /\ rejected \subseteq {toolNames[i] : i \in 1..Len(toolNames)}
           /\ Commit(ensureToolsRegistered(Current, toolNames, extensionContext,
                                           mcpTools, rejected),
                     "ensureToolsRegistered", toolNames)
    /\ UNCHANGED <<extensionContext, mcpTools, discVars, normVars, turnVars, httpVars>>

RegSpecInit ==
    /\ RegInit
    /\ NormIdle
    /\ DiscIdle
    /\ TurnIdle
    /\ HttpIdle

RegNext ==
    \/ Activate
    \/ RegisterToolDynamically
    \/ AddDiscoveredTool
    \/ RegisterMCPTool
    \/ EnsureToolsRegistered

SpecReg == RegSpecInit /\ [][RegNext]_vars

----------------------------------------------------------------------------
(* Server specification: activation, registrar calls and HTTP requests on
   both routes, in any order *)

\* registrations of one name after which clearDummyRegistry is not called again
MaxRegistrations == 2

\* clearDummyRegistry(): dummyRegistry.clear()
ClearDummyRegistry ==
    /\ \A name \in AllNames : registerOk[name] < MaxRegistrations
    /\ Commit(Outcome([Current EXCEPT !.reg = {}], TRUE, {}), "clearDummyRegistry", <<>>)
    /\ UNCHANGED <<extensionContext, mcpTools, discVars, normVars, turnVars, httpVars>>

\* POST /chat/completions or /v1/messages arrives and is handled up to the
\* await inside ensureToolsRegistered; one request is followed at a time
ReceiveRequest ==
    /\ response.kind # "pending"
    /\ \E rt \in Routes, body \in Bodies :
         \E rejected \in SUBSET {body.toolNames[i] : i \in 1..Len(body.toolNames)} :
           LET received == receiveRequest(Current, rt, body, extensionContext, mcpTools,
                                          rejected)
           IN /\ Commit(Outcome(received.st, body.valid, received.invoked),
                        "request", body.toolNames)
              /\ response' = received.response
    /\ UNCHANGED <<extensionContext, mcpTools, discVars, normVars, turnVars, catVars,
                   toolResult, srvVars>>

\* the handler resumes and answers
Respond ==
    /\ response.kind = "pending"
    /\ \E available \in SUBSET ModelIds, throwing \in SUBSET ModelIds, sendOk \in BOOLEAN :
           response' = respond(response, available, throwing, sendOk)
    /\ UNCHANGED <<regVars, discVars, normVars, turnVars, catVars, toolResult,
                   srvVars>>

ServerInit ==
    /\ RegInit
    /\ NormIdle
    /\ DiscIdle
    /\ TurnIdle
    /\ HttpIdle

ServerNext ==
    \/ Activate
    \/ RegisterToolDynamically
    \/ RegisterMCPTool
    \/ ReceiveRequest
    \/ Respond

SpecServer == ServerInit /\ [][ServerNext]_vars

----------------------------------------------------------------------------
(* Catalog specification: two turns that discover tools at run time, direct
   addDiscoveredTool calls and GET /tools, in any interleaving *)

\* names the model calls in the two turns, both in the pattern table of
\* tryCommonToolPatterns
RuntimeNames == {"git", "npm"}

\* invokeTool threw "tool not found" in turn t: discoverToolDefinition is
\* awaited and resolves (server.ts:775); the turn has not resumed yet
BeginDiscovery(t) ==
    /\ pending[t] = NoDiscovery
    /\ \E name \in RuntimeNames :
           pending' = [pending EXCEPT ![t] =
                           [name |-> name, tool |-> discoverToolDefinition(name, NoProbe)]]
    /\ UNCHANGED <<regVars, discVars, normVars, turnVars, response, listing, toolResult,
                   srvVars>>

\* turn t resumes after the await: addDiscoveredTool and registerToolDynamically
\* run without another suspension (server.ts:776-784)
FinishDiscovery(t) ==
    /\ pending[t] # NoDiscovery
    /\ \E envOk \in BOOLEAN :
           Commit(discoverAndRegister(Current, pending[t].name, pending[t].tool,
                                      extensionContext, envOk),
                  "discovery", <<pending[t].name>>)
    /\ pending' = [pending EXCEPT ![t] = NoDiscovery]
    /\ UNCHANGED <<extensionContext, mcpTools, discVars, normVars, turnVars, response,
                   listing, toolResult, srvVars>>

\* GET /tools
GetTools ==
    /\ listing' = toolsListing(claudeToolSignatures, mcpTools)
    /\ UNCHANGED <<regVars, discVars, normVars, turnVars, response, pending, toolResult,
                   srvVars>>

CatalogInit ==
    /\ Activated
    /\ NormIdle
    /\ DiscIdle
    /\ TurnIdle
    /\ HttpIdle

CatalogNext ==
    \/ \E t \in Turns : BeginDiscovery(t)
    \/ \E t \in Turns : FinishDiscovery(t)
    \/ AddDiscoveredTool
    \/ GetTools

SpecCatalog == CatalogInit /\ [][CatalogNext]_vars

----------------------------------------------------------------------------
(* Registry specification: activation and every exported function of
   extension.ts that writes dummyRegistry, in any order *)

\* the execution environment calls the invoke() installed for the provider's
\* tool, with an input that JSON.stringify accepts
InvokeMCPTool ==
    /\ registerOk["search"] > 0
    /\ \E handler \in McpOutcomes : toolResult' = mcpInvoke("search", handler)
    /\ UNCHANGED <<regVars, discVars, normVars, turnVars, response, catVars,
                   srvVars>>

RegistryNext ==
    \/ Activate
    \/ RegisterToolDynamically
    \/ RegisterMCPTool
    \/ ClearDummyRegistry
    \/ InvokeMCPTool

SpecRegistry == ServerInit /\ [][RegistryNext]_vars

----------------------------------------------------------------------------
(* Turn specification: one streamed request on either route *)

\* the variables after the synchronous part of a step
Apply(T) ==
    /\ T.reg.fails <= MaxFailures
    /\ stack' = T.stack
    /\ retryCount' = T.retryCount
    /\ sink' = T.sink
    /\ tpc' = T.tpc
    /\ retryContexts' = T.retryContexts
    /\ thrown' = T.thrown
    /\ delivered' = T.delivered
    /\ claudeToolSignatures' = T.reg.sigs
    /\ dummyRegistry' = T.reg.reg
    /\ registerOk' = T.reg.oks
    /\ failures' = T.reg.fails

\* the parts the model has streamed in the turn, over all its attempts
RECURSIVE Chunks(_)
Chunks(atts) == IF atts = <<>> THEN 0 ELSE Len(Head(atts)) + Chunks(Tail(atts))

\* a streaming request arrives; /chat/completions stores a retry context
\* (server.ts:483-494), then the first executeStreamWithRetry is entered
Request ==
    /\ tpc = "idle"
    /\ \E rt \in Routes, req \in TurnRequests :
           /\ route' = rt
           /\ request' = req
           /\ retryContexts' = IF rt = "chat" THEN {1} ELSE {}
    /\ tpc' = "streaming"
    /\ retryCount' = 0
    /\ stack' = <<Frame("send", 0, "")>>
    /\ UNCHANGED <<attempts, sendRequests, sent, sink, thrown, delivered, regVars,
                   discVars, normVars, httpVars>>

\* model.sendRequest returns a response stream; /v1/messages then writes
\* message_start (server.ts:1065-1072)
SendRequestReturns ==
    /\ tpc = "streaming"
    /\ Top(stack).pc = "send"
    /\ sendRequests' = sendRequests + 1
    /\ sent' = Append(sent, Dispatch(RetryContext(request, retryCount)))
    /\ attempts' = Append(attempts, <<>>)
    /\ stack' = SetTop(stack, Frame("loop", Len(attempts) + 1, ""))
    /\ sink' = IF route = "messages"
               THEN Append(sink, Written("message_start", "", <<>>))
               ELSE sink
    /\ UNCHANGED <<route, tpc, retryContexts, retryCount, request, thrown, delivered,
                   regVars, discVars, normVars, httpVars>>

\* model.sendRequest throws
SendRequestThrows ==
    /\ tpc = "streaming"
    /\ Top(stack).pc = "send"
    /\ sendRequests' = sendRequests + 1
    /\ sent' = Append(sent, Dispatch(RetryContext(request, retryCount)))
    /\ \E errorMessage \in ErrorMessages, envOk \in BOOLEAN, execOut \in Probes :
           Apply(Throw(TurnState, route, errorMessage, extensionContext, envOk, execOut))
    /\ UNCHANGED <<route, attempts, request, extensionContext, mcpTools, lastOp, discVars,
                   normVars, httpVars>>

\* the stream gives a text part: await onText(chunk)
TakeText ==
    /\ tpc = "streaming"
    /\ Top(stack).pc = "loop"
    /\ \E value \in TextValues :
           /\ attempts' = [attempts EXCEPT ![Top(stack).attempt] =
                               Append(@, Written("text", "", <<value>>))]
           /\ sink' = Append(sink, Written("text", "", <<value>>))
    /\ UNCHANGED <<route, tpc, retryContexts, retryCount, stack, sendRequests, request,
                   sent, thrown, delivered, regVars, discVars, normVars, httpVars>>

StreamText == Chunks(attempts) < MaxChunks /\ TakeText

\* the stream gives a tool call part: onToolCall writes it and invokeTool is
\* called
TakeToolCall ==
    /\ tpc = "streaming"
    /\ Top(stack).pc = "loop"
    /\ \E name \in TurnTools :
           /\ attempts' = [attempts EXCEPT ![Top(stack).attempt] =
                               Append(@, Written("tool_call", name, <<>>))]
           /\ Apply(BeginToolCall(TurnState, name))
    /\ UNCHANGED <<route, sendRequests, request, sent, extensionContext, mcpTools, lastOp,
                   discVars, normVars, httpVars>>

ToolCall == Chunks(attempts) < MaxChunks /\ TakeToolCall

\* invokeTool resolves: await onToolResult(callId, name, toolResult)
InvokeToolReturns ==
    /\ tpc = "streaming"
    /\ Top(stack).pc = "invoke"
    /\ \E text \in ResultTexts :
           Apply(DeliverToolResult(EndInvoke(TurnState), route, "try", Top(stack).tool,
                                   text))
    /\ UNCHANGED <<route, attempts, sendRequests, request, sent, extensionContext,
                   mcpTools, lastOp, discVars, normVars, httpVars>>

\* invokeTool throws: the catch block runs
InvokeToolThrows ==
    /\ tpc = "streaming"
    /\ Top(stack).pc = "invoke"
    /\ \E errorMessage \in ErrorMessages, envOk \in BOOLEAN, execOut \in Probes :
           Apply(HandleInvokeError(EndInvoke(TurnState), route, Top(stack).tool,
                                   errorMessage, extensionContext, envOk, execOut))
    /\ UNCHANGED <<route, attempts, sendRequests, request, sent, extensionContext,
                   mcpTools, lastOp, discVars, normVars, httpVars>>

\* the stream is exhausted: processStreamChunks and executeStreamWithRetry return
StreamEnds ==
    /\ tpc = "streaming"
    /\ Top(stack).pc = "loop"
    /\ Apply(Return(TurnState, route))
    /\ UNCHANGED <<route, attempts, sendRequests, request, sent, extensionContext,
                   mcpTools, lastOp, discVars, normVars, httpVars>>

TurnInit ==
    /\ Activated
    /\ TurnIdle
    /\ NormIdle
    /\ DiscIdle
    /\ HttpIdle

TurnNext ==
    \/ Request
    \/ SendRequestReturns
    \/ SendRequestThrows
    \/ StreamText
    \/ ToolCall
    \/ InvokeToolReturns
    \/ InvokeToolThrows
    \/ StreamEnds

SpecTurn == TurnInit /\ [][TurnNext]_vars

----------------------------------------------------------------------------
(* Claims about the normalizer, checked under SpecNorm *)

NonSystem(msgs) == SelectSeq(msgs, IsNotSystem)
Applied == npc = "done" /\ processed.hasSystemPrompt
SystemBlock(text) ==
    <<"<SYSTEM_INSTRUCTIONS>", "\n">> \o text \o <<"\n", "</SYSTEM_INSTRUCTIONS>">>
UserBlock(text) == <<"<USER_MESSAGE>", "\n">> \o text \o <<"\n", "</USER_MESSAGE>">>

\* C5: whatever the input messages, the format and the enable switch, the
\* normalized message sequence holds no message with role system.
C5_NoSystemRole ==
    npc = "done" =>
        \A i \in 1..Len(processed.messages) : processed.messages[i].role # "system"

\* a system message went in with processing disabled, and one with it enabled
C5_Witness ==
    /\ npc = "done"
    /\ ~config.enableSystemPromptProcessing
    /\ Len(messages) = 2
    /\ messages[1].role = "system" /\ messages[2].role = "system"
    /\ Len(processed.messages) = 2

\* C9 as stated: with assistant_acknowledgment every input of n messages gives
\* n + 2 messages, the first an assistant message and the second a user message.
C9_AckCountOriginal ==
    (npc = "done" /\ config.systemPromptFormat = "assistant_acknowledgment") =>
        /\ Len(processed.messages) = Len(messages) + 2
        /\ processed.messages[1].role = "assistant"
        /\ processed.messages[2].role = "user"

\* C9 amended: with assistant_acknowledgment, processing enabled and system
\* content that is not blank, an input with n >= 1 non-system messages gives
\* exactly n + 2 messages (system messages are folded into the instruction
\* message and are not counted), position 0 assistant and position 1 user, the
\* n non-system messages following unchanged.
C9_AckCount ==
    (Applied /\ config.systemPromptFormat = "assistant_acknowledgment"
        /\ Len(NonSystem(messages)) >= 1) =>
        /\ Len(processed.messages) = Len(NonSystem(messages)) + 2
        /\ processed.messages[1].role = "assistant"
        /\ processed.messages[2].role = "user"
        /\ SubSeq(processed.messages, 3, Len(processed.messages)) = NonSystem(messages)

C9_Witness ==
    /\ Applied
    /\ config.systemPromptFormat = "assistant_acknowledgment"
    /\ Len(messages) = 2 /\ messages[1].role = "system" /\ messages[2].role = "user"
    /\ Len(processed.messages) = 3

\* C10 as stated: with merge and system content, the first non-system message's
\* new content is always the SYSTEM_INSTRUCTIONS block followed by a
\* USER_MESSAGE block around its original content, no message is added, and
\* with no non-system message the output is one user message holding only the
\* SYSTEM_INSTRUCTIONS block.
C10_MergeOriginal ==
    (Applied /\ config.systemPromptFormat = "merge") =>
        IF Len(NonSystem(messages)) >= 1
        THEN /\ processed.messages[1].content = StringContent(
                    SystemBlock(processed.systemContent) \o NL2
                        \o UserBlock(ContentText(NonSystem(messages)[1].content)))
             /\ Len(processed.messages) = Len(NonSystem(messages))
        ELSE processed.messages =
                 <<Message("user", StringContent(SystemBlock(processed.systemContent)))>>

\* C10 amended: as stated when the first non-system message's content is not
\* blank; when it is blank (empty after trimming) the new content is the
\* SYSTEM_INSTRUCTIONS block alone, with no USER_MESSAGE block.
C10_Merge ==
    (Applied /\ config.systemPromptFormat = "merge") =>
        IF Len(NonSystem(messages)) >= 1
        THEN LET original == ContentText(NonSystem(messages)[1].content)
             IN /\ processed.messages[1].content = StringContent(
                       IF Trim(original) # <<>>
                       THEN SystemBlock(processed.systemContent) \o NL2
                                \o UserBlock(original)
                       ELSE SystemBlock(processed.systemContent))
                /\ processed.messages[1].role = NonSystem(messages)[1].role
                /\ Tail(processed.messages) = Tail(NonSystem(messages))
        ELSE processed.messages =
                 <<Message("user", StringContent(SystemBlock(processed.systemContent)))>>

\* a blank first message was merged, so only the system block was written
C10_Witness ==
    /\ Applied
    /\ config.systemPromptFormat = "merge"
    /\ Len(messages) = 2
    /\ messages[1].role = "system"
    /\ messages[2] = Message("user", StringContent(<<" ">>))
    /\ processed.messages[1].content = StringContent(SystemBlock(processed.systemContent))

----------------------------------------------------------------------------
(* Claims about the registrar, checked under SpecReg *)

\* C6 as stated: registerToolDynamically(name) called twice in sequence for a
\* catalog name: the second call returns true, does not invoke
\* vscode.lm.registerTool, and leaves the registration set as the first left it.
C6_TwiceOriginal ==
    (lastOp.op = "registerToolDynamically" /\ lastOp.repeats # "no"
        /\ lastOp.absent = {}) =>
        /\ lastOp.result
        /\ lastOp.invoked = {}
        /\ dummyRegistry = lastOp.before

\* C6 amended: registerToolDynamically(name) called twice in sequence for a
\* catalog name, the first call having returned true: the second call returns
\* true, does not invoke vscode.lm.registerTool again, and the registration set
\* is the same after it as after the first call.
C6_Twice ==
    (lastOp.op = "registerToolDynamically" /\ lastOp.repeats = "ok"
        /\ lastOp.absent = {}) =>
        /\ lastOp.result
        /\ lastOp.invoked = {}
        /\ dummyRegistry = lastOp.before
        /\ \A n \in AllNames : registerOk[n] <= 1

\* a discovered name was registered and then registered again
C6_Witness ==
    /\ lastOp.op = "registerToolDynamically"
    /\ lastOp.repeats = "ok"
    /\ lastOp.names = <<"git">>
    /\ "git" \in dummyRegistry
    /\ registerOk["git"] = 1

\* C7 as stated: after ensureToolsRegistered, every requested name that was
\* absent from the catalog has a catalog entry and is in the registration set.
C7_UnknownToolRegistered ==
    lastOp.op = "ensureToolsRegistered" =>
        \A n \in lastOp.absent :
            n \in CatalogNames(claudeToolSignatures) /\ n \in dummyRegistry

----------------------------------------------------------------------------
(* Claims about discovery, checked under SpecDisc *)

\* the hand-authored entries of the pattern table
HandAuthored == PatternKeys \ {"default"}

\* C8 as stated: discoverToolDefinition returns a signature for every name,
\* whatever the probe commands give: the hand-authored one for a name of the
\* pattern table, the generic fallback for every other name.
C8_DiscoveryAlwaysSucceeds ==
    dpc = "done" =>
        /\ discovered # NullSignature
        /\ discovered = IF discName \in HandAuthored
                        THEN PatternSignature(discName, discName)
                        ELSE GenericSignature(discName)

----------------------------------------------------------------------------
(* Claims about the streamed turn, checked under SpecTurn *)

\* the text parts of a sequence of frames, in order
IsText(frame) == frame.type = "text"
Texts(frames) == SelectSeq(frames, IsText)

\* C1: whatever the model streams and the tools return, one streamed turn
\* re-dispatches at most MaxRetries times: it calls sendRequest at most
\* MaxRetries + 1 times, also when the re-dispatches nest.
C1_RetryBound ==
    /\ sendRequests <= MaxRetries + 1
    /\ retryCount <= MaxRetries
    /\ Len(stack) <= MaxRetries + 1

\* three nested attempts are streaming, each re-dispatched by a sentinel result
C1_Witness ==
    /\ route = "chat"
    /\ Len(stack) = MaxRetries + 1
    /\ Top(stack).pc = "loop"
    /\ sendRequests = MaxRetries + 1
    /\ retryCount = MaxRetries
    /\ \A i \in 1..MaxRetries : stack[i].pc = "wait_try"

\* C2 as stated: once retryCount has reached maxRetries, a further tool result
\* that contains the sentinel is written to the caller's stream as a tool
\* result instead of re-dispatching.
C2_ExhaustedSentinelForwarded ==
    (route = "chat" /\ Includes(delivered.text, Sentinel) /\ delivered.at >= MaxRetries) =>
        delivered.outcome = "written"

\* C3 as stated: on both streaming routes no tool result whose text contains
\* the sentinel is written while the retry budget is not exhausted.
C3_NoSentinelWhileBudget ==
    (Includes(delivered.text, Sentinel) /\ delivered.at < MaxRetries) =>
        delivered.outcome # "written"

\* C4 as stated: in a completed turn in which a retry was triggered the text
\* the caller received is the text of one single attempt.
C4_NoDuplicateText ==
    (tpc = "completed" /\ retryCount > 0) =>
        \E k \in 1..Len(attempts) : Texts(sink) = Texts(attempts[k])

----------------------------------------------------------------------------
(* Further claims about the normalizer, checked under SpecNorm *)

\* C11: with an empty configured system prompt and no system message in the
\* input, the normalized sequence equals the input for every format, and
\* hasSystemPrompt is false.
C11_EmptyPassthrough ==
    (npc = "done" /\ config.systemPrompt = <<>> /\ NonSystem(messages) = messages) =>
        /\ processed.messages = messages
        /\ ~processed.hasSystemPrompt

\* two non-system messages went through with processing enabled
C11_Witness ==
    /\ npc = "done"
    /\ config.systemPrompt = <<>>
    /\ config.enableSystemPromptProcessing
    /\ config.systemPromptFormat = "assistant_acknowledgment"
    /\ Len(messages) = 2
    /\ NonSystem(messages) = messages
    /\ processed.messages = messages

----------------------------------------------------------------------------
(* Further claims about the streamed turn, checked under SpecTurn *)

IsDone(frame) == frame.type = "done"

\* C14: a completed streaming /chat/completions turn has written exactly one
\* [DONE] frame, and it is the last frame of the sink, whatever tool calls and
\* retries happened.
C14_OneDoneLast ==
    (route = "chat" /\ tpc = "completed") =>
        /\ Len(SelectSeq(sink, IsDone)) = 1
        /\ sink[Len(sink)].type = "done"

\* a turn that used both retries and wrote tool calls has completed
C14_Witness ==
    /\ route = "chat"
    /\ tpc = "completed"
    /\ retryCount = MaxRetries
    /\ sendRequests = MaxRetries + 1
    /\ Len(sink) >= 3
    /\ sink[Len(sink)].type = "done"

----------------------------------------------------------------------------
(* Further claims about the registrar, checked under SpecReg *)

\* the step is a call of addDiscoveredTool
AddStep == lastOp'.op = "addDiscoveredTool"

\* the signatures of that name that addDiscoveredTool is handed
Handed(name) == {sig \in DiscoveredSignatures \ {NullSignature} : sig.name = name}

\* C15: addDiscoveredTool with a name that is not in the catalog appends the
\* entry as the last element and the length grows by one; with a name that is
\* in the catalog it replaces that entry where it stands, the length stays and
\* no other entry changes.
C15_Upsert ==
    [][(AddStep /\ lastOp'.names[1] \notin {NullSignature.name, NoName}) =>
         LET name == lastOp'.names[1]
             old == claudeToolSignatures
             new == claudeToolSignatures'
         IN /\ lastOp'.result
            /\ IF name \notin CatalogNames(old)
               THEN /\ Len(new) = Len(old) + 1
                    /\ SubSeq(new, 1, Len(old)) = old
                    /\ new[Len(new)] \in Handed(name)
               ELSE /\ Len(new) = Len(old)
                    /\ \A i \in 1..Len(old) :
                           IF old[i].name = name THEN new[i] \in Handed(name)
                           ELSE new[i] = old[i]]_vars

\* two entries were appended and the entry of Read was replaced in place
C15_Witness ==
    /\ lastOp.op = "addDiscoveredTool"
    /\ Len(claudeToolSignatures) = Len(BuiltinCatalog) + 2
    /\ claudeToolSignatures[FindIndex(BuiltinCatalog, "Read")].description
           = "Updated description"
    /\ claudeToolSignatures[Len(BuiltinCatalog) + 1].name = NoName
    /\ claudeToolSignatures[Len(BuiltinCatalog) + 2].name = "git"

\* C16 as stated: addDiscoveredTool with a null signature or a signature
\* without a name returns false and leaves the catalog as it was.
C16_MalformedRejected ==
    [][(AddStep /\ lastOp'.names[1] \in {NullSignature.name, NoName}) =>
         /\ ~lastOp'.result
         /\ claudeToolSignatures' = claudeToolSignatures]_vars

\* C17: registerToolDynamically with a name that has no catalog entry returns
\* false, does not call vscode.lm.registerTool, and leaves the catalog and the
\* registration set as they were.
C17_UnknownNameFails ==
    [][(/\ lastOp'.op = "registerToolDynamically"
        /\ lastOp'.names[1] \notin CatalogNames(claudeToolSignatures)) =>
         /\ ~lastOp'.result
         /\ lastOp'.invoked = {}
         /\ UNCHANGED <<claudeToolSignatures, dummyRegistry, registerOk, failures>>]_vars

\* registerToolDynamically("unknown_tool") ran after activation and failed
C17_Witness ==
    /\ lastOp.op = "registerToolDynamically"
    /\ lastOp.names = <<"unknown_tool">>
    /\ lastOp.absent = {"unknown_tool"}
    /\ ~lastOp.result
    /\ lastOp.invoked = {}
    /\ "Read" \in dummyRegistry

\* C20: over every order of activation, registerToolDynamically,
\* registerMCPTool and ensureToolsRegistered calls, vscode.lm.registerTool
\* returns normally at most once for each tool name.
C20_AtMostOnce == \A name \in AllNames : registerOk[name] <= 1

\* a second registerMCPTool("search") ran after a successful first one, with
\* the built-ins registered at activation
C20_Witness ==
    /\ lastOp.op = "registerMCPTool"
    /\ lastOp.repeats = "ok"
    /\ lastOp.result
    /\ registerOk["search"] = 1
    /\ registerOk["Read"] = 1
    /\ {"search", "Read"} \subseteq dummyRegistry

----------------------------------------------------------------------------
(* Claims about the route handlers, checked under SpecServer *)

\* a request with a JSON body has been answered
Answered == response.status # 0 /\ response.body.valid

\* the id the fallback rule selects for the answered request
Selected == IF response.found.requested THEN response.body.model ELSE DefaultModel

C13_MalformedIs400 ==
    (response.status # 0 /\ (~response.body.valid \/ ~response.body.hasMessages)) =>
        /\ response.status = 400
        /\ response.type # ""

\* the step is a direct call of one of the two registering functions
RegisterStep == lastOp'.op \in {"registerToolDynamically", "registerMCPTool"}

\* the step is a request running its ensureToolsRegistered
EnsureStep == response.kind # "pending" /\ response'.kind = "pending"

----------------------------------------------------------------------------
(* Claim about the registration set, checked under SpecRegistry *)

\* C19 as stated: no step removes a name from the registration set.
C19_OnlyGrows == [][dummyRegistry \subseteq dummyRegistry']_vars

\* C19: every step other than a call of clearDummyRegistry, which the module
\* exports for its tests, keeps every name that is in the registration set.
C19_GrowsUnlessCleared ==
    [][lastOp'.op # "clearDummyRegistry" => dummyRegistry \subseteq dummyRegistry']_vars

\* the set was cleared and Read was registered a second time, next to search
C19_Witness ==
    /\ lastOp.op = "registerToolDynamically"
    /\ lastOp.result
    /\ lastOp.before = {"search"}
    /\ dummyRegistry = {"search", "Read"}
    /\ registerOk["Read"] = 2

----------------------------------------------------------------------------
(* Claims about the catalog, checked under SpecCatalog *)

\* C21: whatever addDiscoveredTool calls and run-time discoveries of the two
\* turns have run, in whatever interleaving, no two catalog entries have the
\* same name.
C21_UniqueNames ==
    \A i, j \in 1..Len(claudeToolSignatures) :
        claudeToolSignatures[i].name = claudeToolSignatures[j].name => i = j

\* turn 1 has added its git signature while turn 2, which discovered git as
\* well, has not resumed; the entry was there before turn 1 added
C21_Witness ==
    /\ lastOp.op = "discovery"
    /\ lastOp.names = <<"git">>
    /\ lastOp.result
    /\ lastOp.absent = {}
    /\ pending[2].name = "git"
    /\ Len(claudeToolSignatures) = Len(BuiltinNames) + 2

\* the names of a sequence of entries, in order
NamesOf(entries) == [i \in 1..Len(entries) |-> entries[i].name]

\* C22: no step shortens the catalog or changes the name at a position: the
\* first 16 positions hold the built-in names in their order and the names
\* after them stay in the order of their first insertion; GET /tools lists
\* the catalog entries in catalog order, followed by the provider's tools.
C22_StablePositions ==
    [][/\ Len(claudeToolSignatures') >= Len(claudeToolSignatures)
       /\ \A i \in 1..Len(claudeToolSignatures) :
              claudeToolSignatures'[i].name = claudeToolSignatures[i].name
       /\ SubSeq(NamesOf(claudeToolSignatures'), 1, Len(BuiltinNames)) = BuiltinNames
       /\ listing' # listing =>
              NamesOf(listing') = NamesOf(claudeToolSignatures') \o mcpTools']_vars

\* git was inserted before npm, the built-in Read and git were updated after
\* that, and the listing shows built-ins, git, npm, then the provider's tool
C22_Witness ==
    /\ Len(listing) = Len(BuiltinNames) + 3
    /\ listing[7] = ToolEntry("Read", "Updated description")
    /\ listing[17].name = "git"
    /\ listing[18].name = "npm"
    /\ listing[19].name = "search"
    /\ NamesOf(listing) = NamesOf(claudeToolSignatures) \o mcpTools
    /\ lastOp.op = "discovery"
    /\ lastOp.names = <<"git">>
    /\ lastOp.absent = {}

----------------------------------------------------------------------------
(* Claim about the installed handler, checked under SpecRegistry *)

----------------------------------------------------------------------------
(* Claim about the normalizer's input, checked under SpecNorm *)

\* C25: when processSystemPrompts has returned, the caller's message list and
\* every message in it are what they were before the call, for every format
\* and configuration; the objects of the result, the caller's own among
\* them, hold the messages of the result.
C25_InputUnchanged ==
    [][npc' = "done" =>
           LET run == processSystemPromptsRefs(messages, config)
           IN /\ messages' = messages
              /\ Deref(run.objects, run.refs) = processed'.messages]_vars

\* a system message was turned into a user message and the message after it
\* was handed on as it is; the caller still has its system message
C25_Witness ==
    /\ npc = "done"
    /\ ~config.enableSystemPromptProcessing
    /\ Len(messages) = 2
    /\ messages[1].role = "system"
    /\ processed.messages[1] = [messages[1] EXCEPT !.role = "user"]
    /\ processed.messages[2] = messages[2]
    /\ processSystemPromptsRefs(messages, config).refs = <<3, 2>>

----------------------------------------------------------------------------
(* Further claims about the streamed turn, checked under SpecTurn *)

\* the step ends the await of invokeTool in the top activation
InvokeStep == tpc = "streaming" /\ stack # <<>> /\ Top(stack).pc = "invoke"

\* the tool the top activation has called
Invoked == Top(stack).tool

\* the step is invokeTool throwing: the catch block of processStreamChunks
\* has run and handed its result to onToolResult
InvokeThrew == InvokeStep /\ delivered'.text \notin ResultTexts

\* C23 as stated: whenever invokeTool throws, a tool-result frame with the
\* error text is written for that call and the turn does not fail.
C23_ErrorResultAlways ==
    [][InvokeThrew =>
           /\ tpc' \in {"streaming", "completed"}
           /\ \E e \in ErrorMessages, i \in 1..Len(sink') :
                  /\ i > Len(sink)
                  /\ sink'[i] = Written("tool_result", Invoked, ErrorText(e))]_vars

\* C23: invokeTool throwing never fails the turn.  The result handed to
\* onToolResult is the error text, which is written as a tool result, unless
\* the tool was discovered and registered: then it is the discovery notice,
\* which /v1/messages writes and /chat/completions re-dispatches on or drops.
C23_InvokeFailureNotFatal ==
    [][InvokeThrew =>
           /\ tpc' \in {"streaming", "completed"}
           /\ thrown' = thrown
           /\ \/ /\ \E e \in ErrorMessages : delivered'.text = ErrorText(e)
                 /\ delivered'.outcome = "written"
                 /\ sink' = Append(sink, Written("tool_result", Invoked, delivered'.text))
              \/ /\ delivered'.text = DiscoveryText(Invoked)
                 /\ Invoked \in dummyRegistry'
                 /\ Invoked \in CatalogNames(claudeToolSignatures')
                 /\ delivered'.outcome =
                        IF route = "messages" THEN "written"
                        ELSE IF delivered'.at < MaxRetries THEN "retried"
                        ELSE "dropped"]_vars

\* on /v1/messages the tool was discovered: the notice was written instead of
\* an error text and the turn completed
C23_Witness ==
    /\ route = "messages"
    /\ tpc = "completed"
    /\ thrown = <<>>
    /\ delivered = Delivery("unknown_tool", DiscoveryText("unknown_tool"), 0, "written")
    /\ "unknown_tool" \in dummyRegistry
    /\ \E i \in 1..Len(sink) :
           sink[i] = Written("tool_result", "unknown_tool", DiscoveryText("unknown_tool"))
    /\ \A i \in 1..Len(sink) :
           sink[i].type = "tool_result" => sink[i].text[1] # "Error: "

\* C26 as stated: on either streaming route a tool result that contains the
\* sentinel, delivered while retries remain, re-dispatches the turn.
C26_EveryRouteRedispatches ==
    (Includes(delivered.text, Sentinel) /\ delivered.at < MaxRetries) =>
        delivered.outcome = "retried"

\* C27 as stated: the activation that consumes a stream is the one of the
\* attempt dispatched last; an attempt that was superseded is not consumed
\* from again.
C27_SupersededAbandoned ==
    (tpc = "streaming" /\ Top(stack).pc \in {"loop", "invoke"}) =>
        Top(stack).attempt = Len(attempts)

IsPrefix(s, t) == Len(s) <= Len(t) /\ SubSeq(t, 1, Len(s)) = s

\* C28: frames are only appended to the sink; a part taken from a stream is
\* written in the same step, by the top activation; while a tool is being
\* invoked its tool call is the last frame written; a tool result that is
\* written is written by the step that ends the invocation, before another
\* part is taken; and at most one activation of the turn is invoking a tool.
C28_OrderedWrites ==
    [][/\ IsPrefix(sink, sink')
       /\ \A k \in 1..Len(attempts) :
              attempts'[k] # attempts[k] =>
                  /\ k = Top(stack).attempt
                  /\ Len(sink') = Len(sink) + 1
                  /\ attempts'[k] = Append(attempts[k], sink'[Len(sink')])
       /\ \A i \in 1..Len(stack') :
              stack'[i].pc = "invoke" =>
                  /\ i = Len(stack')
                  /\ sink'[Len(sink')] = Written("tool_call", stack'[i].tool, <<>>)
       /\ (InvokeStep /\ delivered'.outcome = "written") =>
              /\ sink'[Len(sink) + 1] = Written("tool_result", Invoked, delivered'.text)
              /\ attempts' = attempts]_vars

\* text, a tool call, its result and more text, written in the order of the
\* stream
C28_Witness ==
    /\ route = "chat"
    /\ tpc = "streaming"
    /\ attempts = <<(<<Written("text", "", <<"a">>),
                      Written("tool_call", "unknown_tool", <<>>),
                      Written("text", "", <<"b">>)>>)>>
    /\ sink = <<Written("text", "", <<"a">>),
                Written("tool_call", "unknown_tool", <<>>),
                Written("tool_result", "unknown_tool", <<"(executed by Claude Code)">>),
                Written("text", "", <<"b">>)>>

\* C29: every call of sendRequest in a turn, the re-dispatches included, is
\* made on the model the turn started with and is given the messages and the
\* options the turn started with.
C29_SameRequest ==
    /\ Len(sent) = sendRequests
    /\ \A i \in 1..Len(sent) :
           /\ sent[i].model = request.model
           /\ sent[i].chatRequest = request.chatRequest
           /\ sent[i].requestOptions = request.requestOptions

\* two re-dispatches after tool calls: three equal requests of three messages
C29_Witness ==
    /\ route = "chat"
    /\ retryCount = MaxRetries
    /\ Len(sent) = MaxRetries + 1
    /\ Len(request.chatRequest) = 3
    /\ sent[3] = sent[1]
    /\ sent[3].chatRequest = request.chatRequest
    /\ \E i \in 1..Len(sink) : sink[i].type = "tool_call"

\* C30 as stated: after the catch block has handled a failed invocation
\* without re-dispatching, the same activation goes on with its loop.
C30_AlwaysBackToStreaming ==
    [][(InvokeThrew /\ delivered'.outcome # "retried") =>
           /\ tpc' = "streaming"
           /\ stack' = SetTop(stack, [Top(stack) EXCEPT !.pc = "loop"])]_vars

\* C30: after the catch block has written the error text the same activation
\* goes on with its loop; after it has handed on the discovery notice the
\* activation returns (or waits for the re-dispatch and returns then) without
\* taking another part from its stream.
C30_BackToStreamingAfterError ==
    [][/\ InvokeThrew =>
              IF delivered'.text = DiscoveryText(Invoked)
              THEN IF delivered'.outcome = "retried"
                   THEN stack' = Append(SetTop(stack, [Top(stack) EXCEPT !.pc = "wait_disc"]),
                                        Frame("send", 0, ""))
                   ELSE tpc' = "completed" \/ Len(stack') < Len(stack)
              ELSE /\ tpc' = "streaming"
                   /\ stack' = SetTop(stack, [Top(stack) EXCEPT !.pc = "loop"])
       /\ \A i \in 1..Len(stack) :
              stack[i].pc = "wait_disc" => (Len(stack') < i \/ stack'[i] = stack[i])]_vars

\* the error text was written and a later part of the same stream was taken
C30_Witness ==
    /\ route = "chat"
    /\ tpc = "streaming"
    /\ attempts = <<(<<Written("tool_call", "unknown_tool", <<>>),
                      Written("text", "", <<"a">>)>>)>>
    /\ sink = <<Written("tool_call", "unknown_tool", <<>>),
                Written("tool_result", "unknown_tool", ErrorText(<<"request failed">>)),
                Written("text", "", <<"a">>)>>

\* the step is model.sendRequest throwing in an activation that a retry
\* entered: the attempt is a re-dispatch
RedispatchThrew ==
    /\ tpc = "streaming"
    /\ Len(stack) > 1
    /\ Top(stack).pc = "send"
    /\ sendRequests' = sendRequests + 1
    /\ attempts' = attempts

\* C31 as stated: when invokeTool fails with a tool-not-found error and the
\* extension context is available, the result handed to onToolResult is the
\* discovery notice, whether or not the registration succeeded; the raw error
\* text of such a failure is not produced.
C31_NoticeWhateverRegistration ==
    [][(InvokeThrew /\ extensionContext) =>
           \A e \in ErrorMessages :
               IsToolNotFound(e) => delivered'.text # ErrorText(e)]_vars

\* C38 as stated: when the sendRequest of a re-dispatched attempt throws, the
\* turn ends as a failure with that error; the error is not handled as a
\* failure of the tool call that triggered the retry and nothing is written
\* to the client for it.
C38_RedispatchFailurePropagates ==
    [][RedispatchThrew =>
           /\ tpc' = "failed"
           /\ thrown' # <<>>
           /\ sink' = sink]_vars

----------------------------------------------------------------------------
(* Further claims about discovery, checked under SpecDisc *)

\* C32 as stated: the probe sequence comes before the generic fallback, and
\* the first strategy that succeeds wins: for a name that is not in the
\* pattern table, a probe command that gives output decides the signature.
C32_ProbesBeforeFallback ==
    (dpc = "done" /\ discName \notin PatternKeys /\ discName \notin PrototypeKeys
        /\ \E i \in 1..3 : execOutput[i]) =>
        discovered = parseToolFromHelpOutput(discName)

----------------------------------------------------------------------------
(* Further claims about the route handlers, checked under SpecServer *)

----------------------------------------------------------------------------
(* Further claims about the message normaliser, checked under SpecNorm *)

\* C34: with format merge or simple_prepend, system content that is not blank
\* and at least one non-system message, the result has one message per
\* non-system message of the input, in the input's order: the first has the
\* role it had and another content, every later one is the input message.
C34_ShapePreserved ==
    (Applied /\ config.systemPromptFormat \in {"merge", "simple_prepend"}
        /\ Len(NonSystem(messages)) >= 1) =>
        /\ Len(processed.messages) = Len(NonSystem(messages))
        /\ processed.messages[1].role = NonSystem(messages)[1].role
        /\ processed.messages[1].content # NonSystem(messages)[1].content
        /\ \A i \in 2..Len(processed.messages) :
               processed.messages[i] = NonSystem(messages)[i]

\* simple_prepend over an assistant message and a user message: the assistant
\* message has the system content prepended, the user message is untouched
C34_Witness ==
    /\ Applied
    /\ config.systemPromptFormat = "simple_prepend"
    /\ config.systemPrompt = <<"S">>
    /\ messages = <<Message("assistant", StringContent(<<"a">>)),
                    Message("user", PartsContent(<<"a">>))>>
    /\ processed.messages =
           <<Message("assistant", StringContent(<<"S">> \o NL2 \o <<"a">>)),
             Message("user", PartsContent(<<"a">>))>>

----------------------------------------------------------------------------
(* Claims about the retry-context store, checked under SpecTurn *)

\* C35: the store holds one entry while a streamed /chat/completions turn is
\* in flight and none otherwise: the entry is added when the turn starts and
\* deleted when the turn has completed or has thrown.
C35_StoreOnlyInFlight ==
    /\ tpc # "streaming" => retryContexts = {}
    /\ tpc = "streaming" => retryContexts = (IF route = "chat" THEN {1} ELSE {})

\* a turn that re-dispatched and then failed: its entry is gone
C35_Witness ==
    /\ route = "chat"
    /\ tpc = "failed"
    /\ thrown # <<>>
    /\ retryCount >= 1
    /\ sendRequests >= 2
    /\ retryContexts = {}

----------------------------------------------------------------------------
(* Concurrent turns specification: two streamed /chat/completions requests
   whose steps interleave; each finds its RetryContext in the global
   retryContexts map by the contextId made for it (server.ts:466-559) *)

\* a stream of a concurrent turn gives this many parts at most, over the turn
MaxFrames == 2

\* the keys of the map are opaque: 1, 2, ... stand for the strings made
ContextIds == 1..Cardinality(Turns)

\* a generator that gives every turn the same key
NewContextId_Same(used) == CHOOSE id \in ContextIds : \A j \in ContextIds : id <= j

\* const contextId = `${Date.now()}-${Math.random()}`: a key that no entry of
\* the map has
NewContextId(used) == CHOOSE id \in ContextIds : id \notin used /\ \A j \in ContextIds \ used : id <= j

\* the request each of the two turns is started with
RequestOf(t) ==
    IF t = 1 THEN TurnRequest(<<"user: a">>, RequestOptions, "gpt-4")
    ELSE TurnRequest(<<"user: a", "assistant: b", "user: c">>, RequestOptions, DefaultModel)

\* the entry retryContexts.set stores: the context, whose onText, onToolCall
\* and onToolResult are closures over the stream of the turn that made it
StoredContext(req, count, owner) == [context |-> RetryContext(req, count), owner |-> owner]

\* retryContexts.get(contextId) as the turn's activations see it
ContextOf(t) == contextStore[flights[t].id]

InFlight(t) == flights[t].state.tpc = "streaming" /\ flights[t].id \in DOMAIN contextStore

\* the turn's state at the start of a step: retryCount is the context's, the
\* sink is the one the context's callbacks write to, the registrar is the
\* module's; the record of the last delivery is not kept between steps
Load(t) ==
    [flights[t].state EXCEPT !.retryCount = ContextOf(t).context.retryCount,
                             !.sink = flights[ContextOf(t).owner].state.sink,
                             !.reg = Current]

\* the variables after the synchronous part of a step of turn t
Store(t, T, chunks, dispatched) ==
    LET owner == ContextOf(t).owner
        kept == [T EXCEPT !.retryCount = 0, !.reg = NoReg,
                          !.delivered = IdleTurn.delivered,
                          !.sink = IF owner = t THEN T.sink ELSE flights[t].state.sink]
    IN /\ T.reg.fails <= MaxFailures
       /\ contextStore' =
              IF T.retryContexts = {}
              THEN [i \in DOMAIN contextStore \ {flights[t].id} |-> contextStore[i]]
              ELSE [contextStore EXCEPT ![flights[t].id].context.retryCount = T.retryCount]
       /\ flights' = [u \in Turns |->
              IF u = t THEN Flight(kept, flights[t].id, chunks, dispatched)
              ELSE IF u = owner THEN [flights[u] EXCEPT !.state.sink = T.sink]
              ELSE flights[u]]
       /\ claudeToolSignatures' = T.reg.sigs
       /\ dummyRegistry' = T.reg.reg
       /\ registerOk' = T.reg.oks
       /\ failures' = T.reg.fails
       /\ UNCHANGED <<extensionContext, mcpTools, lastOp, discVars, normVars, turnVars,
                      response, catVars, toolResult, deliveredConfig, mcpManagerTools>>

\* createRetryableStreamProcessor: the context is stored under a new id and
\* the first executeStreamWithRetry is entered (server.ts:483-497)
ConRequest(t) ==
    /\ flights[t].state.tpc = "idle"
    /\ LET id == NewContextId(DOMAIN contextStore)
       IN  /\ contextStore' = [i \in DOMAIN contextStore \cup {id} |->
                                  IF i = id THEN StoredContext(RequestOf(t), 0, t)
                                  ELSE contextStore[i]]
           /\ flights' = [flights EXCEPT ![t] =
                  Flight([IdleTurn EXCEPT !.tpc = "streaming", !.retryContexts = {1},
                                          !.stack = <<Frame("send", 0, "")>>],
                         id, 0, <<>>)]
    /\ UNCHANGED <<regVars, discVars, normVars, turnVars, response, catVars, toolResult,
                   deliveredConfig, mcpManagerTools>>

\* context.model.sendRequest(context.chatRequest, context.requestOptions)
\* returns a stream
ConSendRequestReturns(t) ==
    /\ InFlight(t)
    /\ Top(flights[t].state.stack).pc = "send"
    /\ LET dispatched == Append(flights[t].sent, Dispatch(ContextOf(t).context))
       IN Store(t, [Load(t) EXCEPT !.stack = SetTop(@, Frame("loop", Len(dispatched), ""))],
                flights[t].chunks, dispatched)

\* it throws
ConSendRequestThrows(t) ==
    /\ InFlight(t)
    /\ Top(flights[t].state.stack).pc = "send"
    /\ Store(t, Throw(Load(t), "chat", <<"request failed">>, extensionContext, TRUE, NoProbe),
             flights[t].chunks, Append(flights[t].sent, Dispatch(ContextOf(t).context)))

\* a text part: await context.onText(chunk)
ConStreamText(t) ==
    /\ InFlight(t)
    /\ Top(flights[t].state.stack).pc = "loop"
    /\ flights[t].chunks < MaxFrames
    /\ Store(t, [Load(t) EXCEPT !.sink = Append(@, Written("text", "", <<"a">>))],
             flights[t].chunks + 1, flights[t].sent)

\* a tool call part: context.onToolCall writes it and invokeTool is called
ConToolCall(t) ==
    /\ InFlight(t)
    /\ Top(flights[t].state.stack).pc = "loop"
    /\ flights[t].chunks < MaxFrames
    /\ Store(t, BeginToolCall(Load(t), "unknown_tool"), flights[t].chunks + 1,
             flights[t].sent)

\* invokeTool resolves: retryableOnToolResult is awaited with its result
ConInvokeToolReturns(t) ==
    /\ InFlight(t)
    /\ Top(flights[t].state.stack).pc = "invoke"
    /\ \E text \in ResultTexts :
           Store(t, DeliverToolResult(EndInvoke(Load(t)), "chat", "try",
                                      Top(flights[t].state.stack).tool, text),
                 flights[t].chunks, flights[t].sent)

\* invokeTool throws that the tool is not found: the catch block runs, and
\* the registration of the discovered tool succeeds
ConInvokeToolThrows(t) ==
    /\ InFlight(t)
    /\ Top(flights[t].state.stack).pc = "invoke"
    /\ Store(t, HandleInvokeError(EndInvoke(Load(t)), "chat",
                                  Top(flights[t].state.stack).tool,
                                  <<"tool", " x ", "not found">>, extensionContext,
                                  TRUE, NoProbe),
             flights[t].chunks, flights[t].sent)

\* the stream is exhausted
ConStreamEnds(t) ==
    /\ InFlight(t)
    /\ Top(flights[t].state.stack).pc = "loop"
    /\ Store(t, Return(Load(t), "chat"), flights[t].chunks, flights[t].sent)

ConInit ==
    /\ Activated
    /\ TurnIdle
    /\ NormIdle
    /\ DiscIdle
    /\ HttpIdle

ConNext ==
    \E t \in Turns :
        \/ ConRequest(t)
        \/ ConSendRequestReturns(t)
        \/ ConSendRequestThrows(t)
        \/ ConStreamText(t)
        \/ ConToolCall(t)
        \/ ConInvokeToolReturns(t)
        \/ ConInvokeToolThrows(t)
        \/ ConStreamEnds(t)

SpecConcurrent == ConInit /\ [][ConNext]_vars

----------------------------------------------------------------------------
(* Claims about concurrent turns, checked under SpecConcurrent *)

\* C36: every step is a step of one turn and leaves the other turn as it was:
\* its activations, its sink and dispatches, and its entry of the store with
\* its retryCount and messages.  The stepping turn's entry is its own: made
\* for its request, with callbacks that write to its sink, and every
\* sendRequest of the turn was given the turn's own messages.
C36_TurnsIndependent ==
    [][\E t \in Turns :
           /\ \A u \in Turns \ {t} :
                  /\ flights'[u] = flights[u]
                  /\ InFlight(u) =>
                         /\ flights[u].id \in DOMAIN contextStore'
                         /\ contextStore'[flights[u].id] = contextStore[flights[u].id]
           /\ flights'[t].state.tpc = "streaming" =>
                  /\ flights'[t].id \in DOMAIN contextStore'
                  /\ contextStore'[flights'[t].id].owner = t
                  /\ contextStore'[flights'[t].id].context.chatRequest
                         = RequestOf(t).chatRequest
                  /\ contextStore'[flights'[t].id].context.retryCount <= MaxRetries
           /\ \A i \in 1..Len(flights'[t].sent) :
                  flights'[t].sent[i].chatRequest = RequestOf(t).chatRequest]_vars

\* both turns are in flight; the first has used its budget up and the second
\* has not retried and has written a frame of its own
C36_Witness ==
    /\ InFlight(1)
    /\ InFlight(2)
    /\ ContextOf(1).context.retryCount = MaxRetries
    /\ ContextOf(2).context.retryCount = 0
    /\ Len(flights[1].sent) = MaxRetries + 1
    /\ flights[2].state.sink = <<Written("text", "", <<"a">>)>>

----------------------------------------------------------------------------
(* Turn specification for termination: every model response stream is
   finite, and every await of the turn settles *)

\* a response stream gives this many parts at most
MaxStream == 1

\* model.sendRequest is called this many times at most in a turn that is
\* followed
MaxSends == 4

LiveSendRequestReturns == sendRequests < MaxSends /\ SendRequestReturns

LiveSendRequestThrows == sendRequests < MaxSends /\ SendRequestThrows

\* the stream the top activation consumes has a part left
StreamHasNext ==
    /\ tpc = "streaming"
    /\ Top(stack).pc = "loop"
    /\ Len(attempts[Top(stack).attempt]) < MaxStream

LiveStreamText == StreamHasNext /\ TakeText

LiveToolCall == StreamHasNext /\ TakeToolCall

LiveNext ==
    \/ Request
    \/ LiveSendRequestReturns
    \/ LiveSendRequestThrows
    \/ LiveStreamText
    \/ LiveToolCall
    \/ InvokeToolReturns
    \/ InvokeToolThrows
    \/ StreamEnds

\* the event loop runs a continuation that is ready: sendRequest and
\* invokeTool settle, a stream gives its next part or ends
SpecTurnLive == TurnInit /\ [][LiveNext]_vars /\ WF_vars(LiveNext)

\* C37: a streamed turn that has started completes or fails, however many
\* tool results carry the sentinel and however many invocations fail.
C37_Terminates == (tpc = "streaming") ~> (tpc \in {"completed", "failed"})

\* a turn that completed after two re-dispatches and a failed invocation
C37_Witness ==
    /\ route = "chat"
    /\ tpc = "completed"
    /\ retryCount = MaxRetries
    /\ sendRequests = MaxRetries + 1
    /\ \E i \in 1..Len(sink) :
           sink[i] = Written("tool_result", "unknown_tool", ErrorText(<<"request failed">>))

----------------------------------------------------------------------------
(* Configuration specification: the running server, configuration changes
   delivered through updateConfig, and the requests normalized in between
   (server.ts:27-62, 853-884; extension.ts:176-181).  The configurations
   name no MCP client. *)

\* body.messages of the requests that are followed
ConfigRequests ==
    {<<Message("user", StringContent(<<"a">>))>>,
     <<Message("system", StringContent(<<"a">>)), Message("user", StringContent(<<"a">>))>>}

\* the getConfig of newHonoServer: () => config, where config is the
\* parameter of newServer
getConfig == config

\* server.updateConfig(newConfig): initializeMCPClients(mcpManager, newConfig)
\* and nothing else; the parameter config of newServer is not assigned
UpdateConfig ==
    /\ \E newConfig \in Configs : deliveredConfig' = newConfig
    /\ UNCHANGED <<normVars, regVars, discVars, turnVars, response, catVars, toolResult,
                   contextStore, flights, mcpManagerTools>>

\* a request arrives: const config = getConfig();
\* processSystemPrompts(body.messages, config)
NormalizeRequest ==
    /\ \E msgs \in ConfigRequests :
           /\ messages' = msgs
           /\ processed' = processSystemPrompts(msgs, getConfig)
    /\ npc' = "done"
    /\ UNCHANGED <<config, regVars, discVars, turnVars, httpVars>>

\* newServer(config) has returned
ConfigInit ==
    /\ config \in Configs
    /\ messages = <<>>
    /\ processed = NotYet
    /\ npc = "input"
    /\ Activated
    /\ DiscIdle
    /\ TurnIdle
    /\ HttpIdle

ConfigNext == UpdateConfig \/ NormalizeRequest

SpecConfig == ConfigInit /\ [][ConfigNext]_vars

\* C39 as stated: a request that is handled after updateConfig(newConfig) is
\* normalized with newConfig's systemPrompt and systemPromptFormat.
C39_RequestsUseNewConfig ==
    [][(deliveredConfig # NoConfig /\ deliveredConfig' = deliveredConfig) =>
           processed' = processSystemPrompts(messages', deliveredConfig)]_vars

----------------------------------------------------------------------------
(* MCP specification: the clients of the configuration are initialized one
   after the other, in any order and again after a configuration change
   (server.ts:91-151; mcp-client.ts:40-168, 252-258).  A client whose
   connection fails changes nothing (server.ts:104-107). *)

\* loadToolsFromClient: this.tools.set(`${clientName}:${tool.name}`, tool) for
\* each tool of the response; a key that is in the map keeps its position
RECURSIVE loadToolsFromClient(_, _, _, _)
loadToolsFromClient(keys, clientName, tools, index) ==
    IF index > Len(tools) THEN keys
    ELSE LET key == <<clientName, tools[index]>>
         IN loadToolsFromClient(
                IF \E i \in 1..Len(keys) : keys[i] = key THEN keys ELSE Append(keys, key),
                clientName, tools, index + 1)

\* registerMCPToolsToVSCode(mcpManager, clientName): the loop over
\* mcpManager.getAvailableTools(), which is every value of the tools map
RECURSIVE registerMCPToolsToVSCode(_, _, _, _, _, _)
registerMCPToolsToVSCode(st, keys, index, clientName, context, rejected) ==
    IF index > Len(keys) THEN st
    ELSE LET toolName == PrefixedName(clientName, keys[index][2])
             out == registerMCPTool(st, toolName, context, toolName \notin rejected)
         IN registerMCPToolsToVSCode(out.st, keys, index + 1, clientName, context, rejected)

\* one round of the loop of initializeMCPClients: await mcpManager.addClient,
\* then await registerMCPToolsToVSCode(mcpManager, name)
AddClient ==
    /\ \E name \in McpClients :
         LET loaded == loadToolsFromClient(mcpManagerTools, name, Provides(name), 1)
         IN \E rejected \in SUBSET {PrefixedName(name, loaded[i][2]) : i \in 1..Len(loaded)} :
              /\ mcpManagerTools' = loaded
              /\ Commit(Outcome(registerMCPToolsToVSCode(Current, loaded, 1, name,
                                                         extensionContext, rejected),
                                TRUE, {}),
                        "initializeMCPClients", <<name>>)
    /\ UNCHANGED <<extensionContext, mcpTools, discVars, normVars, turnVars, response,
                   catVars, toolResult, contextStore, flights, deliveredConfig>>

McpInit ==
    /\ Activated
    /\ NormIdle
    /\ DiscIdle
    /\ TurnIdle
    /\ HttpIdle

McpNext == AddClient

SpecMcp == McpInit /\ [][McpNext]_vars

\* C40 as stated: a name <client>:<tool> is registered only if the client
\* provides the tool.
C40_PrefixIsProvider ==
    \A c \in McpClients, t \in ProvidedNames :
        PrefixedName(c, t) \in dummyRegistry =>
            \E i \in 1..Len(Provides(c)) : Provides(c)[i] = t

====
